---- MODULE Spec2Model ----
(***************************************************************************)
(* A model of libkeepass: credential derivation (Key), the CBC stream      *)
(* mode, the hashed-block stream, and the KDB / KDBX codecs.               *)
(*                                                                         *)
(* Byte arrays are sequences of naturals.  SHA-256 and the block ciphers   *)
(* are black boxes of the library (OpenSSL); they are modelled as          *)
(* injective term constructors: a digest is the token SHA followed by the  *)
(* hashed bytes, an encrypted block is the token ECB, the key it was       *)
(* made under and an application count.  Literal data bytes are smaller    *)
(* than every token, so a digest never equals a literal array.             *)
(***************************************************************************)
EXTENDS Integers, Sequences, FiniteSets, TLC

VARIABLES
    password_key_,   \* Key::CompositeKey::password_key_
    keyfile_key_,    \* Key::CompositeKey::keyfile_key_
    key_error,       \* exception thrown by the last Key::SetKeyFile call
    transform,       \* the running Key::Transform call: its arguments and locals
    cbc,             \* a byte string taken through encrypt_cbc and decrypt_cbc
    hashed_ostreambuf,  \* the hashed-block writer and the stream dst_ it writes
    hashed_istreambuf,  \* the hashed-block reader over that stream
    hashed_log,      \* what was written, flushed and altered (history)
    file,            \* the database file at `path`
    db,              \* the Database returned by the first Import
    db2,             \* the Database returned by the Import of the exported file
    call,            \* the running Import or Export call
    heap,            \* objects allocated so far (fresh addresses and UUIDs)
    kdbx_file,       \* the KdbxFile instance: its pools and header_hash_
    refs,            \* one object, its owning references and back-references
    operands,        \* two objects, and what comparing and printing them gives
    base64,          \* a string taken through base64_encode and base64_decode
    obfuscation,     \* RandomObfuscator instances of one key and their calls
    kdb_time,        \* a KDB packed time taken through Import and Export
    read_entry,      \* an entry read by an Import, with its attachments
    assertions       \* whether the build compiles assert() in (no NDEBUG)

keyVars == <<password_key_, keyfile_key_, key_error, transform>>
cbcVars == <<cbc>>
hashedVars == <<hashed_ostreambuf, hashed_istreambuf, hashed_log>>
codecVars == <<file, db, db2, call, heap, kdbx_file, assertions>>

refsVars == <<refs>>

pureVars == <<operands, base64, obfuscation, kdb_time, read_entry>>

vars == <<keyVars, cbcVars, hashedVars, codecVars, refsVars, pureVars>>

\* What the operations of one component leave alone.
notKey == <<cbcVars, hashedVars, codecVars, refsVars, pureVars>>
notCbc == <<keyVars, hashedVars, codecVars, refsVars, pureVars>>
notHashed == <<keyVars, cbcVars, codecVars, refsVars, pureVars>>

----------------------------------------------------------------------------
(* Bounds of the model.                                                    *)

\* Cells of a sub-key array (std::array<uint8_t, 32>, scaled down).
KeyLen == 2
\* Width in bits of the loop counter of Key::Transform (uint32_t, scaled
\* down); the rounds argument (uint64_t) is one bit wider.
CounterBits == 2
\* Distinct passwords and transform seeds tried.
NumPasswords == 2
NumSeeds == 1

----------------------------------------------------------------------------
(* Black boxes: SHA-256 and the AES block permutation.                     *)

RECURSIVE Pow2(_)
Pow2(n) == IF n = 0 THEN 1 ELSE 2 * Pow2(n - 1)

Min(a, b) == IF a < b THEN a ELSE b

\* Tokens; every literal byte of the model is below SHA.
SHA == 100
ECB == 200

Drop(s, n) == SubSeq(s, n + 1, Len(s))
Take(s, n) == SubSeq(s, 1, Min(n, Len(s)))

\* SHA256_Init / SHA256_Update... / SHA256_Final over the bytes `data`.
Sha256(data) == <<SHA>> \o data

\* The AES permutation keyed by `seed` has cycles; the model gives every
\* cycle the length EcbPeriod, longer than any round count tried.
EcbPeriod == Pow2(CounterBits + 1) + 1

\* encrypt_ecb(src, cipher) on a 32-byte array: one application of the
\* permutation keyed by `seed`.
encrypt_ecb(seed, src) ==
    IF Len(src) >= 3 /\ src[1] = ECB /\ src[2] = seed
    THEN IF src[3] + 1 = EcbPeriod
         THEN Drop(src, 3)
         ELSE <<ECB, seed, src[3] + 1>> \o Drop(src, 3)
    ELSE <<ECB, seed, 1>> \o src

----------------------------------------------------------------------------
(* Key (src/src/key.cc).                                                   *)

kEmptyKey == [j \in 1..KeyLen |-> 0]

Passwords == 1..NumPasswords
Seeds == 1..NumSeeds
KeyBytes == 0..1
\* A pair of characters of a raw key file that is not two hex digits.
NotHex == -1

kHashSubKeys == "kHashSubKeys"
kHashSubKeysOnlyIfCompositeKey == "kHashSubKeysOnlyIfCompositeKey"
Resolutions == {kHashSubKeys, kHashSubKeysOnlyIfCompositeKey}

\* Mutant of Resolve: the KDB policy hashes a lone sub-key as well, and the
\* key-file sub-key is fed to the digest before the password sub-key.
ResolveMutant(pw, kf, resolution) ==
    IF resolution = kHashSubKeys
    THEN Sha256((IF kf # kEmptyKey THEN kf ELSE <<>>) \o
                (IF pw # kEmptyKey THEN pw ELSE <<>>))
    ELSE Sha256((IF pw # kEmptyKey THEN pw ELSE <<>>) \o
                (IF kf # kEmptyKey THEN kf ELSE <<>>))

\* Key::CompositeKey::Resolve
Resolve(pw, kf, resolution) ==
    IF resolution = kHashSubKeys
    THEN Sha256((IF pw # kEmptyKey THEN pw ELSE <<>>) \o
                (IF kf # kEmptyKey THEN kf ELSE <<>>))
    ELSE IF pw # kEmptyKey
         THEN IF kf # kEmptyKey
              THEN Sha256(pw \o kf)
              ELSE pw
         ELSE kf

\* Key::SetPassword
SetPassword(password) ==
    /\ transform.pc = "idle"
    /\ password_key_' = Sha256(<<password>>)
    /\ UNCHANGED <<keyfile_key_, key_error, transform, notKey>>

\* The key files tried: a missing file, an XML key file whose Data decodes
\* to `data`, and a raw file of hex digit pairs `data` (NotHex: a pair that
\* is not hex).
KeyFileData(n) == [1..n -> KeyBytes]
RawFileData(n) == [1..n -> KeyBytes \cup {NotHex}]
KeyFiles ==
    {[kind |-> "missing", data |-> <<>>]}
    \cup {[kind |-> "xml", data |-> d] : d \in KeyFileData(KeyLen) \cup KeyFileData(KeyLen - 1)}
    \cup {[kind |-> "raw", data |-> d] : d \in RawFileData(KeyLen) \cup RawFileData(KeyLen - 1)}

\* The first pair of a raw key file that is not hex, or Len + 1.
RECURSIVE FirstNotHex(_, _)
FirstNotHex(data, j) ==
    IF j > Len(data) \/ data[j] = NotHex THEN j ELSE FirstNotHex(data, j + 1)

\* Key::SetKeyFile: the value of keyfile_key_ when the call ends (by a
\* return or by a throw).
SetKeyFileKey(old, key_file) ==
    CASE key_file.kind = "missing" -> old
      [] key_file.kind = "xml" ->
            IF Len(key_file.data) # KeyLen THEN old ELSE key_file.data
      [] OTHER ->
            IF Len(key_file.data) # KeyLen THEN old
            ELSE [j \in 1..KeyLen |->
                     IF j < FirstNotHex(key_file.data, 1) THEN key_file.data[j] ELSE old[j]]

\* Key::SetKeyFile: the exception the call ends with.
SetKeyFileError(key_file) ==
    CASE key_file.kind = "missing" -> "FileNotFound"
      [] key_file.kind = "xml" ->
            IF Len(key_file.data) # KeyLen THEN "Format" ELSE "none"
      [] OTHER ->
            IF Len(key_file.data) # KeyLen THEN "Format"
            ELSE IF FirstNotHex(key_file.data, 1) <= KeyLen THEN "Format" ELSE "none"

SetKeyFile(key_file) ==
    /\ transform.pc = "idle"
    /\ keyfile_key_' = SetKeyFileKey(keyfile_key_, key_file)
    /\ key_error' = SetKeyFileError(key_file)
    /\ UNCHANGED <<password_key_, transform, notKey>>

CounterMod == Pow2(CounterBits)
MaxRounds == Pow2(CounterBits + 1) - 1

TransformIdle ==
    [pc |-> "idle", seed |-> 0, rounds |-> 0, resolution |-> kHashSubKeys,
     i |-> 0, transformed_key |-> <<>>, n_enc |-> 0]

\* Key::Transform, entry: the cipher is keyed and the sub-keys are resolved.
TransformCall(seed, rounds, resolution) ==
    [pc |-> "loop", seed |-> seed, rounds |-> rounds,
     resolution |-> resolution, i |-> 0,
     transformed_key |-> Resolve(password_key_, keyfile_key_, resolution),
     n_enc |-> 0]

\* A call of Key::Transform by a user of the Key.
TransformBegin(seed, rounds, resolution) ==
    /\ transform.pc = "idle"
    /\ transform' = TransformCall(seed, rounds, resolution)
    /\ UNCHANGED <<password_key_, keyfile_key_, key_error, notKey>>

\* Key::Transform, one evaluation of `i < rounds` and of the loop body; the
\* counter i is narrower than rounds and wraps.  n_enc counts the
\* encryptions made (it stops counting once it exceeds rounds).
TransformStep ==
    /\ transform.pc = "loop"
    /\ IF transform.i < transform.rounds
       THEN transform' = [transform EXCEPT
                !.transformed_key = encrypt_ecb(transform.seed, @),
                !.i = (@ + 1) % CounterMod,
                !.n_enc = IF @ <= transform.rounds THEN @ + 1 ELSE @]
       ELSE transform' = [transform EXCEPT
                !.transformed_key = Sha256(@),
                !.pc = "done"]
    /\ UNCHANGED <<password_key_, keyfile_key_, key_error, notKey>>

\* The caller takes the result; the Key can be used again.
TransformReturn ==
    /\ transform.pc = "done"
    /\ transform' = TransformIdle
    /\ UNCHANGED <<password_key_, keyfile_key_, key_error, notKey>>

----------------------------------------------------------------------------
(* CBC mode (src/src/cipher.cc).  Blocks are BlockLen cells of CellBits    *)
(* bits (16 bytes of 8 bits, scaled down).                                 *)

BlockLen == 3
CellBits == 2
NumCipherKeys == 2

CellMod == Pow2(CellBits)
CipherKeys == 1..NumCipherKeys
MaxPlainLen == 2 * BlockLen
\* Plaintext bytes tried; BlockLen is among them, so that data can look
\* like padding.
PlainBytes == {0, 1, BlockLen}

RECURSIVE SeqsUpTo(_, _)
SeqsUpTo(S, n) ==
    IF n = 0 THEN {<<>>}
    ELSE LET shorter == SeqsUpTo(S, n - 1)
         IN  shorter \cup {Append(s, x) : s \in {t \in shorter : Len(t) = n - 1}, x \in S}

\* std::bit_xor<uint8_t> on cells of n bits.
RECURSIVE BitXor(_, _, _)
BitXor(a, b, n) ==
    IF n = 0 THEN 0
    ELSE (((a % 2) + (b % 2)) % 2) + 2 * BitXor(a \div 2, b \div 2, n - 1)

XorBlock(x, y) == [j \in 1..BlockLen |-> BitXor(x[j], y[j], CellBits)]

\* Cipher<16>::InitializationVector
InitializationVector == [j \in 1..BlockLen |-> j % CellMod]

\* Cipher<16>::Encrypt: a permutation of the blocks for every key, and
\* different keys give permutations that agree on no block.  The model
\* rotates the cells and adds the key to each.
Encrypt(key, src) ==
    [j \in 1..BlockLen |-> (src[(j % BlockLen) + 1] + key) % CellMod]

\* Cipher<16>::Decrypt: the inverse permutation.
Decrypt(key, src) ==
    [j \in 1..BlockLen |->
        (src[((j + BlockLen - 2) % BlockLen) + 1] + CellMod - (key % CellMod)) % CellMod]

\* block_transform with the lambda of encrypt_cbc: every block read is
\* xored with the previous cipher block and encrypted; a short last block
\* is filled with its PKCS #7 padding.
RECURSIVE EncryptCbcBlocks(_, _, _)
EncryptCbcBlocks(src, prv, key) ==
    IF src = <<>> THEN <<>>
    ELSE LET src_len == Min(BlockLen, Len(src))
             pad_len == BlockLen - src_len
             block == [j \in 1..BlockLen |->
                          IF j <= src_len THEN src[j] ELSE pad_len % CellMod]
             dst == Encrypt(key, XorBlock(block, prv))
         IN  dst \o EncryptCbcBlocks(Drop(src, src_len), dst, key)

\* The last cipher block written (prv when encrypt_cbc leaves its loop).
LastBlock(dst) ==
    IF dst = <<>> THEN InitializationVector
    ELSE SubSeq(dst, Len(dst) - BlockLen + 1, Len(dst))

\* Mutant of encrypt_cbc: no padding block is added when the input ends on
\* a block boundary.
encrypt_cbc_unpadded(src, key) ==
    EncryptCbcBlocks(src, InitializationVector, key)

\* encrypt_cbc
encrypt_cbc(src, key) ==
    LET dst == EncryptCbcBlocks(src, InitializationVector, key)
        pad_len == IF Len(src) % BlockLen = 0 THEN 0
                   ELSE BlockLen - (Len(src) % BlockLen)
    IN  IF pad_len = 0
        THEN dst \o Encrypt(key, XorBlock([j \in 1..BlockLen |-> BlockLen % CellMod],
                                          LastBlock(dst)))
        ELSE dst

\* block_transform with the lambda of decrypt_cbc: what was written to dst
\* and the exception thrown, if any.
RECURSIVE DecryptCbcBlocks(_, _, _)
DecryptCbcBlocks(src, prv, key) ==
    IF src = <<>> THEN [error |-> "none", out |-> <<>>]
    ELSE IF Len(src) < BlockLen THEN [error |-> "Io", out |-> <<>>]
    ELSE LET block == Take(src, BlockLen)
             dst == XorBlock(Decrypt(key, block), prv)
             last == Len(src) = BlockLen
             pad_len == dst[BlockLen]
         IN  IF last
             THEN IF pad_len > BlockLen THEN [error |-> "Io", out |-> <<>>]
                  ELSE IF \E j \in (BlockLen - pad_len + 1)..BlockLen : dst[j] # pad_len
                       THEN [error |-> "Io", out |-> <<>>]
                       ELSE [error |-> "none", out |-> Take(dst, BlockLen - pad_len)]
             ELSE LET rest == DecryptCbcBlocks(Drop(src, BlockLen), block, key)
                  IN  [error |-> rest.error, out |-> dst \o rest.out]

\* decrypt_cbc
decrypt_cbc(src, key) == DecryptCbcBlocks(src, InitializationVector, key)

\* The byte string src is encrypted under key.
CbcEncrypt ==
    /\ cbc.pc = "ready"
    /\ cbc' = [pc |-> "encrypted", src |-> cbc.src, key |-> cbc.key,
               dst |-> encrypt_cbc(cbc.src, cbc.key)]
    /\ UNCHANGED notCbc

\* What was encrypted is decrypted, under the same or another key.
CbcDecrypt(key) ==
    /\ cbc.pc = "encrypted"
    /\ LET r == decrypt_cbc(cbc.dst, key)
       IN  cbc' = [pc |-> "decrypted", src |-> cbc.src, key |-> cbc.key,
                   dst |-> cbc.dst, dec_key |-> key,
                   error |-> r.error, out |-> r.out]
    /\ UNCHANGED notCbc

----------------------------------------------------------------------------
(* Hashed-block stream (src/src/stream.cc).  The stream is the sequence    *)
(* of blocks written to dst_: a BlockHeader and the block's bytes.         *)

MaxBlockSize == 2
MaxData == 3
MaxSyncs == 2

StreamBytes == 0..1

kEmptyHash == [j \in 1..KeyLen |-> 0]

\* hashed_basic_streambuf::GetBlockHash
GetBlockHash(block_) == Sha256(block_)

\* hashed_ostreambuf::hashed_ostreambuf(dst, block_size)
NewHashedOstreambuf(block_size) ==
    [block_size_ |-> block_size, block_index_ |-> 0, block_ |-> <<>>, dst_ |-> <<>>]

\* Mutant of FlushBlock: the block index is not advanced.
FlushBlockSameIndex(w) ==
    [w EXCEPT !.dst_ = Append(@, [block_index |-> w.block_index_,
                                  block_hash |-> IF w.block_ = <<>> THEN kEmptyHash
                                                 ELSE GetBlockHash(w.block_),
                                  block_size |-> Len(w.block_),
                                  data |-> w.block_]),
              !.block_ = <<>>]

\* hashed_ostreambuf::FlushBlock (dst_ accepts every write)
FlushBlock(w) ==
    [w EXCEPT !.block_index_ = @ + 1,
              !.dst_ = Append(@, [block_index |-> w.block_index_,
                                  block_hash |-> IF w.block_ = <<>> THEN kEmptyHash
                                                 ELSE GetBlockHash(w.block_),
                                  block_size |-> Len(w.block_),
                                  data |-> w.block_]),
              !.block_ = <<>>]

\* hashed_ostreambuf::overflow
overflow(w, c) ==
    LET pushed == [w EXCEPT !.block_ = Append(@, c)]
    IN  IF Len(pushed.block_) = pushed.block_size_ THEN FlushBlock(pushed) ELSE pushed

\* Mutant of sync: the pending block is flushed even when it is empty.
sync_unguarded(w) == FlushBlock(FlushBlock(w))

\* hashed_ostreambuf::sync
sync(w) ==
    LET flushed == IF w.block_ # <<>> THEN FlushBlock(w) ELSE w
    IN  FlushBlock(flushed)

\* hashed_istreambuf::hashed_istreambuf(src)
NewHashedIstreambuf ==
    [state |-> "closed", block_index_ |-> 0, pos |-> 1, delivered |-> <<>>]

\* Mutant of underflow: the block checksum is not verified.
underflow_unverified(r, src_) ==
    LET header == src_[r.pos]
    IN  IF header.block_index # r.block_index_
        THEN [r EXCEPT !.state = "Io", !.pos = @ + 1]
        ELSE IF header.block_size = 0
             THEN [r EXCEPT !.state = "eof", !.pos = @ + 1, !.block_index_ = @ + 1]
             ELSE [r EXCEPT !.pos = @ + 1, !.block_index_ = @ + 1,
                            !.delivered = @ \o header.data]

\* hashed_istreambuf::underflow with an empty get area: the next block of
\* src_ is read and checked; its bytes become the get area (delivered), or
\* the call ends in eof or in an IoError.
underflow(r, src_) ==
    LET header == src_[r.pos]
    IN  IF header.block_index # r.block_index_
        THEN [r EXCEPT !.state = "Io", !.pos = @ + 1]
        ELSE IF header.block_size = 0
             THEN IF header.block_hash # kEmptyHash
                  THEN [r EXCEPT !.state = "Io", !.pos = @ + 1, !.block_index_ = @ + 1]
                  ELSE [r EXCEPT !.state = "eof", !.pos = @ + 1, !.block_index_ = @ + 1]
             ELSE IF GetBlockHash(header.data) # header.block_hash
                  THEN [r EXCEPT !.state = "Io", !.pos = @ + 1, !.block_index_ = @ + 1]
                  ELSE [r EXCEPT !.pos = @ + 1, !.block_index_ = @ + 1,
                                 !.delivered = @ \o header.data]

NewHashedLog ==
    [written |-> <<>>, syncs |-> 0, flushed |-> FALSE, altered |-> 0]

\* The producer writes the byte c (std::ostream::put -> overflow).
HashedPut(c) ==
    /\ hashed_istreambuf.state = "closed"
    /\ hashed_log.altered = 0
    /\ Len(hashed_log.written) < MaxData
    /\ hashed_ostreambuf' = overflow(hashed_ostreambuf, c)
    /\ hashed_log' = [hashed_log EXCEPT !.written = Append(@, c), !.flushed = FALSE]
    /\ UNCHANGED <<hashed_istreambuf, notHashed>>

\* The producer flushes (std::ostream::flush -> sync).
HashedFlush ==
    /\ hashed_istreambuf.state = "closed"
    /\ hashed_log.altered = 0
    /\ hashed_log.syncs < MaxSyncs
    /\ hashed_ostreambuf' = sync(hashed_ostreambuf)
    /\ hashed_log' = [hashed_log EXCEPT !.syncs = @ + 1, !.flushed = TRUE]
    /\ UNCHANGED <<hashed_istreambuf, notHashed>>

\* The stored stream is altered in one place: the index field of block k.
AlterIndex(k, v) ==
    /\ hashed_istreambuf.state = "closed"
    /\ hashed_log.flushed /\ hashed_log.altered = 0
    /\ k \in 1..Len(hashed_ostreambuf.dst_)
    /\ v # hashed_ostreambuf.dst_[k].block_index
    /\ hashed_ostreambuf' = [hashed_ostreambuf EXCEPT !.dst_[k].block_index = v]
    /\ hashed_log' = [hashed_log EXCEPT !.altered = k]
    /\ UNCHANGED <<hashed_istreambuf, notHashed>>

\* The stored stream is altered in one place: the hash field of block k.
AlterHash(k, h) ==
    /\ hashed_istreambuf.state = "closed"
    /\ hashed_log.flushed /\ hashed_log.altered = 0
    /\ k \in 1..Len(hashed_ostreambuf.dst_)
    /\ h # hashed_ostreambuf.dst_[k].block_hash
    /\ hashed_ostreambuf' = [hashed_ostreambuf EXCEPT !.dst_[k].block_hash = h]
    /\ hashed_log' = [hashed_log EXCEPT !.altered = k]
    /\ UNCHANGED <<hashed_istreambuf, notHashed>>

\* The stored stream is altered in one place: byte j of the data of block k.
AlterData(k, j, v) ==
    /\ hashed_istreambuf.state = "closed"
    /\ hashed_log.flushed /\ hashed_log.altered = 0
    /\ k \in 1..Len(hashed_ostreambuf.dst_)
    /\ j \in 1..Len(hashed_ostreambuf.dst_[k].data)
    /\ v # hashed_ostreambuf.dst_[k].data[j]
    /\ hashed_ostreambuf' = [hashed_ostreambuf EXCEPT !.dst_[k].data[j] = v]
    /\ hashed_log' = [hashed_log EXCEPT !.altered = k]
    /\ UNCHANGED <<hashed_istreambuf, notHashed>>

\* A consumer opens a reader on the flushed stream.
HashedOpen ==
    /\ hashed_istreambuf.state = "closed"
    /\ hashed_log.flushed
    /\ hashed_istreambuf' = [hashed_istreambuf EXCEPT !.state = "open"]
    /\ UNCHANGED <<hashed_ostreambuf, hashed_log, notHashed>>

\* The consumer has used up the get area and asks for more.  A flushed
\* stream ends in a terminator, where the reader stops, so there is always
\* a block to read.
HashedUnderflow ==
    /\ hashed_istreambuf.state = "open"
    /\ hashed_istreambuf' = underflow(hashed_istreambuf, hashed_ostreambuf.dst_)
    /\ UNCHANGED <<hashed_ostreambuf, hashed_log, notHashed>>

----------------------------------------------------------------------------
(* Base64 (src/src/base64.hh, src/src/base64.cc).  A string is a sequence  *)
(* of bytes 0..255; a character is its ASCII code.  The header defines     *)
(* base64_encode and base64_decode over iterators; base64.cc defines them  *)
(* over std::string with the trailing bytes held in a plain char.          *)

\* "ABCDEFGHIJKLMNOPQRSTUVWXYZabcdefghijklmnopqrstuvwxyz0123456789+/"
kBase64 ==
    [i \in 1..64 |->
        IF i <= 26 THEN 64 + i
        ELSE IF i <= 52 THEN 70 + i
        ELSE IF i <= 62 THEN i - 5
        ELSE IF i = 63 THEN 43
        ELSE 47]

\* '='
kPad == 61

\* std::string::npos
npos == -1

\* kBase64.find(c)
Base64Find(c) ==
    LET found == {i \in 1..64 : kBase64[i] = c}
    IN  IF found = {} THEN npos ELSE (CHOOSE i \in found : TRUE) - 1

\* std::isspace(c, std::locale::classic())
IsSpace(c) == c = 32 \/ c \in 9..13

\* base64_encode(first, last) of base64.hh: the bytes are uint8_t.
RECURSIVE base64_encode(_)
base64_encode(src) ==
    IF src = <<>> THEN <<>>
    ELSE LET c0 == src[1]
         IN  IF Len(src) = 1
             THEN <<kBase64[(c0 \div 4) + 1],
                    kBase64[((c0 % 4) * 16) + 1], kPad, kPad>>
             ELSE LET c1 == src[2]
                  IN  IF Len(src) = 2
                      THEN <<kBase64[(c0 \div 4) + 1],
                             kBase64[((c0 % 4) * 16 + c1 \div 16) + 1],
                             kBase64[((c1 % 16) * 4) + 1], kPad>>
                      ELSE LET c2 == src[3]
                           IN  <<kBase64[(c0 \div 4) + 1],
                                 kBase64[((c0 % 4) * 16 + c1 \div 16) + 1],
                                 kBase64[((c1 % 16) * 4 + c2 \div 64) + 1],
                                 kBase64[(c2 % 64) + 1]>>
                               \o base64_encode(Drop(src, 3))

\* The loop of base64_decode over src_trimmed from position j on, with the
\* bits collected in bits24, i characters of the quartet read and dst
\* written.  The result is the exception thrown, or "none" and dst.
RECURSIVE Base64DecodeLoop(_, _, _, _, _, _)
Base64DecodeLoop(src_trimmed, j, bits24, i, dst, exception) ==
    IF j > Len(src_trimmed) THEN [error |-> "none", value |-> dst]
    ELSE LET c == src_trimmed[j]
             v == Base64Find(c)
             bits == bits24 + v * Pow2(18 - i * 6)
         IN  IF c = kPad
             THEN [error |-> "none",
                   value |-> dst \o <<bits24 \div 65536>>
                        \o (IF i > 2 THEN <<(bits24 \div 256) % 256>> ELSE <<>>)
                        \o (IF i > 3 THEN <<bits24 % 256>> ELSE <<>>)]
             ELSE IF v = npos THEN [error |-> exception, value |-> <<>>]
             ELSE IF i + 1 = 4
                  THEN Base64DecodeLoop(src_trimmed, j + 1, 0, 0,
                           dst \o <<bits \div 65536, (bits \div 256) % 256,
                                    bits % 256>>,
                           exception)
             ELSE Base64DecodeLoop(src_trimmed, j + 1, bits, i + 1, dst,
                                   exception)

\* base64_decode(src, result) of base64.hh
base64_decode(src) ==
    LET src_trimmed == SelectSeq(src, LAMBDA c : ~IsSpace(c))
    IN  IF Len(src_trimmed) % 4 # 0 THEN [error |-> "Format", value |-> <<>>]
        ELSE Base64DecodeLoop(src_trimmed, 1, 0, 0, <<>>, "Format")

\* What a read of kBase64 at a negative index gives: the death of the
\* process (-1), or the byte that lies there.
WildReads == {-1, 0, 65}

\* A byte held in a char: negative from 128 on where char is signed.
Char(byte, char_signed) ==
    IF char_signed /\ byte >= 128 THEN byte - 256 ELSE byte

\* x | y for 0 <= x < 64 and y >= -8 with no bit in common when y >= 0
BitOr(x, y) == IF y < 0 THEN y ELSE x + y

\* kBase64[index] in base64.cc
Base64At(index, wild) == IF index \in 0..63 THEN kBase64[index + 1] ELSE wild

\* base64_encode of base64.cc: whole triples in unsigned char, then the
\* one or two trailing bytes in char.
base64_cc_encode(src, char_signed, wild) ==
    LET triples == IF Len(src) > 1 THEN Len(src) \div 3 ELSE 0
        whole == base64_encode(Take(src, 3 * triples))
        trail == Drop(src, Len(src) - (Len(src) % 3))
        c0 == Char(trail[1], char_signed)
        c1 == Char(trail[2], char_signed)
        indexes ==
            IF Len(trail) = 0 THEN <<>>
            ELSE IF Len(trail) = 1 THEN <<c0 \div 4, (c0 % 4) * 16>>
            ELSE <<c0 \div 4, BitOr((c0 % 4) * 16, c1 \div 16), (c1 % 16) * 4>>
        padding == IF Len(trail) = 0 THEN <<>>
                   ELSE IF Len(trail) = 1 THEN <<kPad, kPad>> ELSE <<kPad>>
    IN  IF wild = -1 /\ \E k \in 1..Len(indexes) : indexes[k] \notin 0..63
        THEN [error |-> "crash", value |-> <<>>]
        ELSE [error |-> "none",
              value |-> whole
                  \o [k \in 1..Len(indexes) |-> Base64At(indexes[k], wild)]
                  \o padding]

\* base64_decode of base64.cc
base64_cc_decode(src) ==
    LET src_trimmed == SelectSeq(src, LAMBDA c : ~IsSpace(c))
    IN  IF Len(src_trimmed) % 4 # 0
        THEN [error |-> "runtime_error", value |-> <<>>]
        ELSE Base64DecodeLoop(src_trimmed, 1, 0, 0, <<>>, "runtime_error")

----------------------------------------------------------------------------
(* The object model (src/src/group.cc, entry.cc, database.hh).  A Group    *)
(* is a record holding its child groups and entries; `addr` is the         *)
(* identity of an object (what a pointer comparison compares).             *)

\* Database::Cipher
kAes == "kAes"
kTwofish == "kTwofish"

\* Group::Group: a fresh object with a generated UUID.
NewGroup(addr) ==
    [addr |-> addr, uuid |-> addr, name |-> 0, custom_icon |-> 0,
     last_visible_entry |-> 0, groups |-> <<>>, entries |-> <<>>]

\* Entry::IsMetaEntry: the strings it looks for ("Meta-Info", "$",
\* "SYSTEM", "bin-stream"); 0 is the empty string.
kMetaInfo == 91
kDollar == 92
kSystem == 93
kBinStream == 94

\* protect<std::string>: a byte string and whether it is protected.
Protect(value, protected) == [value |-> value, protected |-> protected]

\* Entry::Entry: a fresh object with a generated UUID.  Of the five
\* standard strings the password is kept as a protect<std::string>.
NewEntry(addr) ==
    [addr |-> addr, uuid |-> addr, title |-> 0, url |-> 0, username |-> 0,
     password |-> Protect(<<>>, FALSE),
     notes |-> 0, custom_icon |-> 0, attachments |-> <<>>, history |-> <<>>,
     custom_fields |-> <<>>]

\* Binary: the object `addr` is the addr-th binary of the Metadata, 0 a
\* Binary that only an attachment holds.
NewBinary(addr, data) == [addr |-> addr, data |-> data]

\* Entry::Attachment with its Binary
NewAttachment(name, binary) == [name |-> name, binary |-> binary]

\* Entry::IsMetaEntry
IsMetaEntry(entry) ==
    LET has_binstream_attachment ==
            \E j \in 1..Len(entry.attachments) :
                entry.attachments[j].name = kBinStream
    IN  /\ entry.title = kMetaInfo
        /\ entry.url = kDollar
        /\ entry.username = kSystem
        /\ entry.notes # 0
        /\ has_binstream_attachment

\* Group::HasNonMetaEntries
HasNonMetaEntries(group) ==
    \E j \in 1..Len(group.entries) : ~IsMetaEntry(group.entries[j])

\* Entry::Attachment::ToJson
AttachmentToJson(attachment) ==
    [name |-> attachment.name, data |-> attachment.binary.data.value]

\* Entry::ToJson (no UUID, no object identity, no history, no custom
\* fields)
EntryToJson(entry) ==
    [title |-> entry.title, url |-> entry.url, username |-> entry.username,
     notes |-> entry.notes,
     attachment |-> [j \in 1..Len(entry.attachments) |->
                        AttachmentToJson(entry.attachments[j])]]

\* A loop over entries_ from position j on that skips nothing.
EntriesToJsonAll(entries_, j) ==
    [k \in 1..(Len(entries_) + 1 - j) |-> EntryToJson(entries_[j + k - 1])]

\* The loop of Group::ToJson over entries_ from position j on: a meta
\* entry is skipped.
RECURSIVE EntriesToJson(_, _)
EntriesToJson(entries_, j) ==
    IF j > Len(entries_) THEN <<>>
    ELSE IF IsMetaEntry(entries_[j]) THEN EntriesToJson(entries_, j + 1)
    ELSE <<EntryToJson(entries_[j])>> \o EntriesToJson(entries_, j + 1)

\* Group::ToJson (no UUID, no object identity).  `keys` holds which of
\* the keys "groups" and "entries" the output has.
RECURSIVE GroupToJson(_)
GroupToJson(group) ==
    [name |-> group.name,
     custom_icon |-> group.custom_icon # 0,
     keys |-> (IF group.groups # <<>> THEN {"groups"} ELSE {})
                \cup (IF HasNonMetaEntries(group) THEN {"entries"} ELSE {}),
     groups |-> [j \in 1..Len(group.groups) |-> GroupToJson(group.groups[j])],
     entries |-> IF HasNonMetaEntries(group)
                 THEN EntriesToJson(group.entries, 1) ELSE <<>>]

\* What the evaluation of a comparison ends in: a result, or the death of
\* the process.  A read past the end of a vector is undefined; any of the
\* three can come of it.
PastEndOutcomes == {"true", "false", "crash"}

\* Entry::Attachment::operator==
AttachmentEquals(a, b) == a.name = b.name /\ a.binary.data = b.binary.data

\* indirect_equal<std::shared_ptr<Attachment>> from element j on:
\* std::equal(v0.begin(), v0.end(), v1.begin(), ...) walks the elements of
\* v0 and never looks at the size of v1.
RECURSIVE indirect_equal_Attachment(_, _, _, _)
indirect_equal_Attachment(v0, v1, j, past_end) ==
    IF j > Len(v0) THEN "true"
    ELSE IF j > Len(v1) THEN past_end
    ELSE IF AttachmentEquals(v0[j], v1[j])
         THEN indirect_equal_Attachment(v0, v1, j + 1, past_end)
         ELSE "false"

RECURSIVE EntryEquals(_, _, _)
RECURSIVE indirect_equal_Entry(_, _, _, _)

\* indirect_equal<std::shared_ptr<Entry>> from element j on
indirect_equal_Entry(v0, v1, j, past_end) ==
    IF j > Len(v0) THEN "true"
    ELSE IF j > Len(v1) THEN past_end
    ELSE LET same == EntryEquals(v0[j], v1[j], past_end)
         IN  IF same = "true"
             THEN indirect_equal_Entry(v0, v1, j + 1, past_end)
             ELSE same

\* Entry::operator==; `past_end` is what a read past the end of the other
\* operand's vector comes to.
EntryEquals(a, b, past_end) ==
    IF (a.custom_icon # 0) # (b.custom_icon # 0) THEN "false"
    ELSE IF ~(/\ a.uuid = b.uuid
              /\ a.custom_icon = 0 \/ a.custom_icon = b.custom_icon
              /\ a.title = b.title
              /\ a.url = b.url
              /\ a.username = b.username
              /\ a.password = b.password
              /\ a.notes = b.notes) THEN "false"
    ELSE LET attachments ==
                 indirect_equal_Attachment(a.attachments, b.attachments, 1,
                                           past_end)
             history ==
                 indirect_equal_Entry(a.history, b.history, 1, past_end)
         IN  IF attachments # "true" THEN attachments
             ELSE IF history # "true" THEN history
             ELSE IF a.custom_fields = b.custom_fields THEN "true"
             ELSE "false"

RECURSIVE GroupEquals(_, _, _)
RECURSIVE indirect_equal_Group(_, _, _, _)

\* indirect_equal<std::shared_ptr<Group>> from element j on
indirect_equal_Group(v0, v1, j, past_end) ==
    IF j > Len(v0) THEN "true"
    ELSE IF j > Len(v1) THEN past_end
    ELSE LET same == GroupEquals(v0[j], v1[j], past_end)
         IN  IF same = "true"
             THEN indirect_equal_Group(v0, v1, j + 1, past_end)
             ELSE same

\* Group::operator==
GroupEquals(a, b, past_end) ==
    IF ~(/\ a.uuid = b.uuid
         /\ a.custom_icon = b.custom_icon
         /\ a.name = b.name
         /\ a.last_visible_entry = b.last_visible_entry) THEN "false"
    ELSE LET groups_ ==
                 indirect_equal_Group(a.groups, b.groups, 1, past_end)
         IN  IF groups_ # "true" THEN groups_
             ELSE indirect_equal_Entry(a.entries, b.entries, 1, past_end)

\* No Database yet.
NoDatabase == [present |-> FALSE]

\* A null std::shared_ptr<Group>.
NoGroup == [addr |-> 0]

\* Metadata::Metadata: no icons, no designated groups.  recycle_bin_ and
\* entry_templates_ are shared_ptr (the Group itself), last_selected_group_
\* and last_visible_group_ weak_ptr (the address of the Group).
NewMetadata ==
    [icons |-> <<>>, binaries |-> <<>>,
     recycle_bin |-> NoGroup, entry_templates |-> NoGroup,
     last_selected_group |-> 0, last_visible_group |-> 0]

\* Database::Database, with `root` set.
NewDatabase(root) ==
    [present |-> TRUE, root |-> root, meta |-> NewMetadata, cipher |-> kAes,
     master_seed |-> 0, transform_seed |-> 0, transform_rounds |-> 0,
     compress |-> FALSE]

\* No file at a path.
NoFile == [kind |-> "none"]

\* The path of the file a scenario starts from and the path Export writes.
Paths == {"src", "dst"}

\* No call of Import or Export is running and none has run.  `decoded`
\* records that the running call has read a group, an entry, a hashed block
\* or XML from the decrypted content.
NoCall ==
    [op |-> "none", path |-> "none", pc |-> "idle", error |-> "none",
     decoded |-> FALSE, failures |-> 0]

\* A KdbxFile as constructed: empty pools, a zeroed header hash.  A pool
\* is the sequence of its insertions, [key, addr]: unordered_map::insert
\* keeps the element a key already has, so find yields the first.
NewKdbxFile ==
    [binary_pool_ |-> <<>>, icon_pool_ |-> <<>>, group_pool_ |-> <<>>,
     header_hash_ |-> kEmptyHash]

CodecIdle ==
    /\ file = [p \in Paths |-> NoFile]
    /\ db = NoDatabase
    /\ db2 = NoDatabase
    /\ call = NoCall
    /\ heap = 0
    /\ kdbx_file = NewKdbxFile
    /\ assertions = FALSE

\* What a call of Import or Export leaves alone.
codecEnv ==
    <<password_key_, keyfile_key_, key_error, assertions, cbcVars, hashedVars,
      refsVars, pureVars>>

----------------------------------------------------------------------------
(* Ownership (group.hh, entry.hh, metadata.hh, database.hh, kdbx.hh).  One *)
(* object made by std::make_shared -- an Icon, an Entry or a Group -- with *)
(* the owning references that hold it and the back-references set to it.   *)
(* The object lives while its use count, the number of shared_ptr that     *)
(* hold it, is not 0; a weak_ptr does not count and locks to nothing once  *)
(* the object is destroyed.                                                *)

\* The members the data model calls back-references.
BackReferences ==
    {"Group::custom_icon_", "Entry::custom_icon_", "Group::last_visible_entry_",
     "Metadata::recycle_bin_", "Metadata::entry_templates_",
     "Metadata::last_selected_group_", "Metadata::last_visible_group_"}

\* The declared type of each of these members.
MemberType(member) ==
    IF member \in {"Metadata::recycle_bin_", "Metadata::entry_templates_"}
    THEN "shared_ptr"
    ELSE "weak_ptr"

\* The class a back-reference points to.
TargetKind(member) ==
    IF member \in {"Group::custom_icon_", "Entry::custom_icon_"} THEN "Icon"
    ELSE IF member = "Group::last_visible_entry_" THEN "Entry"
    ELSE "Group"

\* The shared_ptr that own an object of each class: the handle of the
\* caller who made it and the containers it was added to.
Owners(kind) ==
    IF kind = "Icon" THEN {"caller", "Metadata::icons_"}
    ELSE IF kind = "Entry" THEN {"caller", "Group::entries_", "Entry::history_"}
    ELSE {"caller", "Group::groups_", "Database::root_", "KdbxFile::group_pool_"}

NoObject == [kind |-> "none", owners |-> {}, back |-> {}, alive |-> FALSE]

RefsIdle == refs = NoObject

\* Nothing is compared, printed or converted.
NoOperands == [kind |-> "none"]

\* Nothing is encoded or decoded.
NoConversion == [first |-> "none"]

\* No entry is read.
NoEntry == [pc |-> "none"]

\* No packed time is read.
NoTime == [pc |-> "none"]

\* No RandomObfuscator is made.
NoObfuscation == [key |-> 0]

PureIdle ==
    /\ operands = NoOperands
    /\ base64 = NoConversion
    /\ obfuscation = NoObfuscation
    /\ kdb_time = NoTime
    /\ read_entry = NoEntry

\* shared_ptr::use_count of the object
UseCount(r) ==
    Cardinality(r.owners)
    + Cardinality({member \in r.back : MemberType(member) = "shared_ptr"})

\* What a back-reference yields when read (weak_ptr::lock, or the
\* shared_ptr itself): "object" or "empty".
Lock(r, member) ==
    IF member \notin r.back THEN "empty"
    ELSE IF MemberType(member) = "shared_ptr" \/ r.alive THEN "object"
    ELSE "empty"

\* std::make_shared<Icon|Entry|Group>
MakeShared(kind) ==
    /\ refs.kind = "none"
    /\ refs' = [kind |-> kind, owners |-> {"caller"}, back |-> {}, alive |-> TRUE]
    /\ UNCHANGED <<keyVars, cbcVars, hashedVars, codecVars, pureVars>>

\* AddIcon, AddEntry, AddHistoryEntry, AddGroup, set_root,
\* group_pool_.insert: a container takes a copy of the shared_ptr.
AddOwner(owner) ==
    /\ refs.alive
    /\ owner \in Owners(refs.kind) \ refs.owners
    /\ refs' = [refs EXCEPT !.owners = @ \cup {owner}]
    /\ UNCHANGED <<keyVars, cbcVars, hashedVars, codecVars, pureVars>>

\* set_custom_icon, set_last_visible_entry, set_recycle_bin,
\* set_entry_templates, set_last_selected_group, set_last_visible_group,
\* with the object as the argument.
SetBackReference(member) ==
    /\ refs.alive
    /\ TargetKind(member) = refs.kind
    /\ member \notin refs.back
    /\ refs' = [refs EXCEPT !.back = @ \cup {member}]
    /\ UNCHANGED <<keyVars, cbcVars, hashedVars, codecVars, pureVars>>

\* An owner lets go: the handle of the caller goes out of scope, the
\* container is destroyed, Reset clears the pool.  The object is destroyed
\* when the use count reaches 0.
DropOwner(owner) ==
    /\ owner \in refs.owners
    /\ LET after == [refs EXCEPT !.owners = @ \ {owner}]
       IN  refs' = [after EXCEPT !.alive = UseCount(after) > 0]
    /\ UNCHANGED <<keyVars, cbcVars, hashedVars, codecVars, pureVars>>

----------------------------------------------------------------------------
(* Encrypted content.  encrypt_cbc under a block cipher keyed by a final   *)
(* key is a black box: the ciphertext is the term [final_key, cipher,      *)
(* plain]; `damaged` marks a ciphertext whose length is not a whole number *)
(* of blocks.                                                              *)

\* encrypt_cbc(content, dst, cipher)
Seal(plain, final_key, cipher) ==
    [final_key |-> final_key, cipher |-> cipher, plain |-> plain,
     damaged |-> FALSE]

\* What a decryption under another key yields when the padding happens to
\* check: bytes that are no content of any file.
Garbage == [garbage |-> TRUE]

\* decrypt_cbc(src, content, cipher): the outcomes.  Under the key and the
\* cipher of the writer the plaintext comes back; a damaged ciphertext
\* throws; under any other key the padding check throws or lets garbage
\* through.
Unseal(sealed, final_key, cipher) ==
    IF sealed.damaged
    THEN {[error |-> "Io", plain |-> Garbage]}
    ELSE IF sealed.final_key = final_key /\ sealed.cipher = cipher
         THEN {[error |-> "none", plain |-> sealed.plain]}
         ELSE {[error |-> "Io", plain |-> Garbage],
               [error |-> "none", plain |-> Garbage]}

\* SHA-256 of a decrypted content.
ContentHash(plain) == Sha256(<<plain>>)

\* The final key: SHA-256 of the master seed and the transformed key.
FinalKey(master_seed, transformed_key) ==
    Sha256(<<master_seed>> \o transformed_key)

\* Key::Transform as a function: `rounds` encryptions and a digest.
RECURSIVE Transformed(_, _, _)
Transformed(key, seed, rounds) ==
    IF rounds = 0 THEN Sha256(key)
    ELSE Transformed(encrypt_ecb(seed, key), seed, rounds - 1)

----------------------------------------------------------------------------
(* KDB (src/src/kdb.cc).                                                   *)

kKdbFlagRijndael == 2
kKdbFlagTwofish == 8
kKdbVersion3 == 196608                  \* 0x00030000
LevelMod == 65536                       \* uint16_t

\* flags & bit, for a bit that is a power of two
HasFlag(flags, bit) == (flags \div bit) % 2 = 1

\* version & 0xffff0000: the mask taken over the upper half only.
VersionMaskedUpperHalf(version) == (version \div 65536) * 65536

\* version & 0xffffff00
VersionMasked(version) == (version \div 256) * 256

\* A group record of a KDB content: the fields ReadGroup consumes.
KdbGroup(id, level, name) ==
    [id |-> id, level |-> level, name |-> name, illegal_field |-> FALSE]

\* An entry record of a KDB content: the fields ReadEntry consumes.
KdbEntry(uuid, group_id, title) ==
    [uuid |-> uuid, group_id |-> group_id, title |-> title,
     illegal_field |-> FALSE]

\* A decrypted KDB content: the group records, then the entry records.
KdbContent(groups, entries) == [groups |-> groups, entries |-> entries]

\* A KDB file: the KdbHeader and the encrypted content.  `complete` is
\* FALSE for a file shorter than the header.
KdbFile(flags, master_seed, transform_seed, transform_rounds, plain, final_key) ==
    [kind |-> "kdb", complete |-> TRUE, signature |-> TRUE,
     flags |-> flags, version |-> kKdbVersion3, master_seed |-> master_seed,
     transform_seed |-> transform_seed,
     transform_rounds |-> transform_rounds,
     num_groups |-> Len(plain.groups), num_entries |-> Len(plain.entries),
     content_hash |-> ContentHash(plain),
     content |-> Seal(plain, final_key,
                      IF flags = kKdbFlagRijndael THEN kAes ELSE kTwofish)]

\* KdbFile::Import up to the call of Key::Transform: the exception thrown,
\* or "none".
KdbOpen(f) ==
    IF f.kind = "none" THEN "FileNotFound"
    ELSE IF f.kind # "kdb" THEN "Format"
    ELSE IF ~f.complete THEN "Format"
    ELSE IF ~f.signature THEN "Format"
    ELSE IF VersionMasked(f.version) # kKdbVersion3 THEN "Format"
    ELSE "none"

\* The cipher the header's flags select, or "none".
KdbCipher(flags) ==
    IF HasFlag(flags, kKdbFlagRijndael) THEN kAes
    ELSE IF HasFlag(flags, kKdbFlagTwofish) THEN kTwofish
    ELSE "none"

\* The loops of ReadGroup and ReadEntry over the decrypted content: the
\* exception thrown, or "none".  A count larger than the number of records
\* reads past the end of the content.
RECURSIVE FirstIllegal(_, _)
FirstIllegal(records, j) ==
    IF j > Len(records) \/ records[j].illegal_field THEN j
    ELSE FirstIllegal(records, j + 1)

KdbRead(plain, num_groups, num_entries) ==
    IF num_groups = 0 /\ num_entries = 0 THEN "none"
    ELSE IF plain = Garbage THEN "Io"
    ELSE IF FirstIllegal(plain.groups, 1) <= Min(num_groups, Len(plain.groups))
         THEN "Format"
    ELSE IF num_groups # Len(plain.groups) THEN "Io"
    ELSE IF FirstIllegal(plain.entries, 1) <= Min(num_entries, Len(plain.entries))
         THEN "Format"
    ELSE IF num_entries > Len(plain.entries) THEN "Io"
    ELSE "none"

\* What an access outside last_group_by_level does: the process is killed,
\* or the access hits memory that is no group of the tree.
UbOutcomes == {"crash", "wild"}

\* The loop that builds the group tree.  `levels` are the levels read, k
\* the position of the loop, last_group_by_level the stack (0 is the
\* root, j the j-th group read), parent the parent of every group attached
\* so far (-1: an object outside the tree).
RECURSIVE KdbTree(_, _, _, _, _, _)
KdbTree(levels, k, last_group_level, last_group_by_level, parent, ub) ==
    IF k > Len(levels) THEN [error |-> "none", parent |-> parent]
    ELSE LET group_level == (levels[k] + 1) % LevelMod
         IN  IF group_level > last_group_level
             THEN IF group_level # last_group_level + 1
                  THEN [error |-> "Format", parent |-> parent]
                  ELSE KdbTree(levels, k + 1, group_level,
                               Append(last_group_by_level, k),
                               Append(parent, last_group_by_level[group_level]),
                               ub)
             ELSE IF group_level = 0
                  THEN IF ub = "crash"
                       THEN [error |-> "crash", parent |-> parent]
                       ELSE KdbTree(levels, k + 1, group_level,
                                    [last_group_by_level EXCEPT ![1] = k],
                                    Append(parent, -1), ub)
                  ELSE KdbTree(levels, k + 1, group_level,
                               [last_group_by_level EXCEPT ![group_level + 1] = k],
                               Append(parent, last_group_by_level[group_level]),
                               ub)

\* The positions, in order, of the groups attached to group j.
ChildrenOf(parent, j) ==
    SelectSeq([k \in 1..Len(parent) |-> k], LAMBDA k : parent[k] = j)

\* group_map.find(id): the position of the group read with that id, or 0.
RECURSIVE GroupById(_, _, _)
GroupById(groups, id, k) ==
    IF k > Len(groups) THEN 0
    ELSE IF groups[k].id = id THEN k
    ELSE GroupById(groups, id, k + 1)

\* The entries, in order, added to the group read at position k.
EntriesOf(plain, k, base) ==
    LET mine == SelectSeq([j \in 1..Len(plain.entries) |-> j],
                    LAMBDA j : GroupById(plain.groups, plain.entries[j].group_id, 1) = k)
    IN  [i \in 1..Len(mine) |->
            [NewEntry(base + Len(plain.groups) + mine[i]) EXCEPT
                !.uuid = plain.entries[mine[i]].uuid,
                !.title = plain.entries[mine[i]].title]]

\* The Group object made by the k-th call of ReadGroup, with what the tree
\* loop and the entry loop added to it.  Objects are allocated from `base`.
RECURSIVE KdbGroupObject(_, _, _, _)
KdbGroupObject(plain, parent, k, base) ==
    [NewGroup(base + k) EXCEPT
        !.name = plain.groups[k].name,
        !.groups = LET c == ChildrenOf(parent, k)
                   IN  [i \in 1..Len(c) |-> KdbGroupObject(plain, parent, c[i], base)],
        !.entries = EntriesOf(plain, k, base)]

\* group_root when Import returns.
KdbRoot(plain, parent, base) ==
    [NewGroup(base + Len(plain.groups) + Len(plain.entries) + 1) EXCEPT
        !.groups = LET c == ChildrenOf(parent, 0)
                   IN  [i \in 1..Len(c) |-> KdbGroupObject(plain, parent, c[i], base)]]

\* An entry whose group id no group carries.
HasOrphan(plain) ==
    \E j \in 1..Len(plain.entries) :
        GroupById(plain.groups, plain.entries[j].group_id, 1) = 0

\* KdbFile::Import from the return of Key::Transform on: the exception
\* thrown ("none": a Database is returned), whether content was decoded, and
\* the root.  `out` is the outcome of decrypt_cbc, `ub` of an access outside
\* the stack, `base` the number of objects allocated before.
KdbImportResult(f, transformed_key, ub, base) ==
    LET final_key == FinalKey(f.master_seed, transformed_key)
        cipher == KdbCipher(f.flags)
        Fail(error, decoded) ==
            {[error |-> error, decoded |-> decoded, root |-> NewGroup(0)]}
        Parse(plain) ==
            LET read == KdbRead(plain, f.num_groups, f.num_entries)
                tree == KdbTree([k \in 1..Len(plain.groups) |-> plain.groups[k].level],
                                1, 0, <<0>>, <<>>, ub)
            IN  IF read # "none" THEN Fail(read, TRUE)
                ELSE IF f.num_groups = 0 /\ f.num_entries = 0
                     THEN {[error |-> "none", decoded |-> FALSE,
                            root |-> NewGroup(base + 1)]}
                ELSE IF tree.error # "none" THEN Fail(tree.error, TRUE)
                ELSE IF HasOrphan(plain) THEN Fail("Format", TRUE)
                ELSE {[error |-> "none", decoded |-> TRUE,
                       root |-> KdbRoot(plain, tree.parent, base)]}
    IN  IF cipher = "none" THEN Fail("Format", FALSE)
        ELSE UNION {
                IF out.error # "none" THEN Fail("Password", FALSE)
                ELSE IF ContentHash(out.plain) # f.content_hash
                     THEN Fail("Password", FALSE)
                ELSE Parse(out.plain) :
                out \in Unseal(f.content, final_key, cipher)}

\* dfs<Group, &Group::Groups>(root, callback): the groups below the root
\* in depth-first pre-order, each with its depth (0 for a child of the root).
RECURSIVE DfsFrom(_, _, _)
DfsFrom(groups, j, level) ==
    IF j > Len(groups) THEN <<>>
    ELSE <<[group |-> groups[j], level |-> level]>>
         \o DfsFrom(groups[j].groups, 1, level + 1)
         \o DfsFrom(groups, j + 1, level)

dfs(root) == DfsFrom(root.groups, 1, 0)

\* The entry records the second traversal of Export writes.
RECURSIVE KdbExportEntries(_, _)
KdbExportEntries(order, k) ==
    IF k > Len(order) THEN <<>>
    ELSE [j \in 1..Len(order[k].group.entries) |->
             KdbEntry(order[k].group.entries[j].uuid, k - 1,
                      order[k].group.entries[j].title)]
         \o KdbExportEntries(order, k + 1)

\* The content KdbFile::Export writes to its temporary stream.
KdbExportContent(root) ==
    LET order == dfs(root)
    IN  KdbContent([k \in 1..Len(order) |->
                       KdbGroup(k - 1, order[k].level, order[k].group.name)],
                   KdbExportEntries(order, 1))

\* The calls a scenario makes, in order: Import of the file at "src",
\* Export of the Database it returned to "dst" by the same codec, Import of
\* the file at "dst" by that codec.
CanImport(path, export) ==
    /\ call.pc = "idle"
    /\ IF path = "src" THEN call.op = "none"
       ELSE call.op = export /\ call.error = "none"

\* Calls of Import repeated after one has thrown.
MaxRetries == 1

\* The caller has caught the exception of an Import of the file at `path`
\* and calls Import of it again, on the same KdbxFile.
CanImportAgain(path) ==
    /\ call.pc = "idle"
    /\ call.op = "KdbxImport" /\ call.path = path
    /\ call.error \notin {"none", "abort", "crash"}
    /\ call.failures <= MaxRetries

CanExport(op) ==
    /\ call.pc = "idle"
    /\ call.op = op /\ call.path = "src" /\ call.error = "none"

\* The program has built a Database with the classes of the library and
\* no call of Import or Export has run.
CanExportBuilt ==
    /\ call.pc = "idle"
    /\ call.op = "none" /\ db.present

Ended(op, path, result) ==
    [op |-> op, path |-> path, pc |-> "idle", error |-> result.error,
     decoded |-> result.decoded,
     failures |-> call.failures + (IF result.error # "none" THEN 1 ELSE 0)]

\* KdbFile::Import, up to the call of Key::Transform.
KdbImportBegin(path) ==
    /\ CanImport(path, "KdbExport")
    /\ IF KdbOpen(file[path]) # "none"
       THEN /\ call' = Ended("KdbImport", path,
                             [error |-> KdbOpen(file[path]), decoded |-> FALSE])
            /\ UNCHANGED transform
       ELSE /\ call' = [op |-> "KdbImport", path |-> path, pc |-> "transform",
                        error |-> "none", decoded |-> FALSE,
                        failures |-> call.failures]
            /\ transform' = TransformCall(file[path].transform_seed,
                                          file[path].transform_rounds,
                                          kHashSubKeysOnlyIfCompositeKey)
    /\ UNCHANGED <<file, db, db2, heap, kdbx_file, codecEnv>>

\* KdbFile::Import, from the return of Key::Transform on.
KdbImportEnd(ub) ==
    /\ call.op = "KdbImport" /\ call.pc = "transform"
    /\ transform.pc = "done"
    /\ \E result \in KdbImportResult(file[call.path], transform.transformed_key,
                                     ub, heap) :
          LET f == file[call.path]
              made == [NewDatabase(result.root) EXCEPT
                          !.cipher = KdbCipher(f.flags),
                          !.master_seed = f.master_seed,
                          !.transform_seed = f.transform_seed,
                          !.transform_rounds = f.transform_rounds]
          IN  /\ call' = Ended("KdbImport", call.path, result)
              /\ IF result.error # "none"
                 THEN UNCHANGED <<db, db2, heap>>
                 ELSE /\ heap' = result.root.addr
                      /\ IF call.path = "src"
                         THEN db' = made /\ UNCHANGED db2
                         ELSE db2' = made /\ UNCHANGED db
    /\ transform' = TransformIdle
    /\ UNCHANGED <<file, kdbx_file, codecEnv>>

\* KdbFile::Export, up to the call of Key::Transform.
KdbExportBegin ==
    /\ CanExport("KdbImport")
    /\ call' = [op |-> "KdbExport", path |-> "dst", pc |-> "transform",
                error |-> "none", decoded |-> FALSE,
                failures |-> call.failures]
    /\ transform' = TransformCall(db.transform_seed, db.transform_rounds,
                                  kHashSubKeysOnlyIfCompositeKey)
    /\ UNCHANGED <<file, db, db2, heap, kdbx_file, codecEnv>>

\* KdbFile::Export, from the return of Key::Transform on.
KdbExportEnd ==
    /\ call.op = "KdbExport" /\ call.pc = "transform"
    /\ transform.pc = "done"
    /\ file' = [file EXCEPT !["dst"] =
                   KdbFile(IF db.cipher = kAes THEN kKdbFlagRijndael
                           ELSE kKdbFlagTwofish,
                           db.master_seed, db.transform_seed,
                           db.transform_rounds, KdbExportContent(db.root),
                           FinalKey(db.master_seed, transform.transformed_key))]
    /\ call' = [call EXCEPT !.pc = "idle"]
    /\ transform' = TransformIdle
    /\ UNCHANGED <<db, db2, heap, kdbx_file, codecEnv>>

----------------------------------------------------------------------------
(* KDBX (src/src/kdbx.cc).  The XML document is the tree of its elements;  *)
(* a UUID is a number together with the count of bytes its base64 text     *)
(* decodes to.                                                             *)

kKdbxVersionCriticalMin == 196609       \* 0x00030001
kUuidSize == 16                         \* std::array<uint8_t, 16>
kNone == 0
kGzip == 1
kCount == 2
kHashSize == 32                         \* std::array<uint8_t, 32> header_hash_

\* version & kKdbxVersionCriticalMask
VersionCritical(version) == (version \div 65536) * 65536

\* An <Entry> element: `strings` are its <String> elements after Title,
\* `binaries` its <Binary> elements and `history` the <Entry> elements
\* under History, each in document order.
XmlEntry(uuid, title, custom_icon_uuid) ==
    [uuid |-> uuid, uuid_size |-> kUuidSize, title |-> title,
     custom_icon_uuid |-> custom_icon_uuid,
     strings |-> <<>>, binaries |-> <<>>, history |-> <<>>]

\* A <Group> element; 0 stands for an absent CustomIconUUID or
\* LastTopVisibleEntry.
XmlGroup(uuid, name, custom_icon_uuid, last_top_visible_entry, entries, groups) ==
    [uuid |-> uuid, uuid_size |-> kUuidSize, name |-> name,
     custom_icon_uuid |-> custom_icon_uuid,
     last_top_visible_entry |-> last_top_visible_entry,
     entries |-> entries, groups |-> groups]

\* A <KeePassFile> document: Meta (HeaderHash, LastSelectedGroup,
\* LastTopVisibleGroup, the UUIDs of CustomIcons) and the group under Root.
\* header_hash_size is the count of bytes the text of HeaderHash decodes
\* to, 0 when the element is absent.  RecycleBinEnabled is true; no
\* RecycleBinUUID (0); EntryTemplatesGroup holds the UUID of sixteen zero
\* bytes (90), which KeePass writes when no group is designated.
XmlDocument(header_hash, last_selected_group, last_top_visible_group, icons, root) ==
    [well_formed |-> TRUE, header_hash |-> header_hash,
     header_hash_size |-> kHashSize,
     recycle_bin_uuid |-> 0, entry_templates_group |-> 90,
     last_selected_group |-> last_selected_group,
     last_top_visible_group |-> last_top_visible_group,
     icons |-> icons, binaries |-> <<>>, root |-> root]

\* A statement after another: `value` is computed, once, and Rest goes on
\* with it.
Then(value, Rest(_)) == CHOOSE result \in {Rest(v) : v \in {value}} : TRUE

\* The bytes of buffer_ and of a block of the keystream (64 in the
\* program).
BufferLen == 3

\* Salsa20Cipher::Salsa20Cipher: input_ holds the key, the constants, the
\* IV, which is the same for every RandomObfuscator, and the block counter
\* in the words input_[8] and input_[9], at zero.  A word has CounterBits
\* bits.
Salsa20Cipher(key) == [key |-> key, input_8 |-> 0, input_9 |-> 0]

\* Salsa20Cipher::WordToByte: the block of the keystream the words of
\* input_ give.
WordToByte(input_) ==
    [i \in 1..BufferLen |->
        (input_.key * 7 + input_.input_8 * 29 + input_.input_9 * 113
         + i * 37 + 11) % 256]

\* Salsa20Cipher::Process: src xor-ed with the block of the keystream, and
\* the cipher with the block counter advanced.
Salsa20Process(cipher_, src) ==
    [cipher_ |-> [cipher_ EXCEPT
                     !.input_8 = (@ + 1) % CounterMod,
                     !.input_9 = IF (cipher_.input_8 + 1) % CounterMod = 0
                                 THEN (@ + 1) % CounterMod ELSE @],
     dst |-> [i \in 1..BufferLen |->
                 BitXor(src[i], WordToByte(cipher_)[i], 8)]]

\* Byte k of the keystream of a Salsa20Cipher made with `key`, counted
\* from 1.
Keystream(key, k) ==
    WordToByte([key |-> key,
                input_8 |-> ((k - 1) \div BufferLen) % CounterMod,
                input_9 |-> ((k - 1) \div BufferLen) \div CounterMod])
        [((k - 1) % BufferLen) + 1]

\* RandomObfuscator::RandomObfuscator: buffer_ holds nothing yet and
\* buffer_pos_ is at its end, so that the first byte makes Process fill
\* it.  `calls` is the log of the calls of Process: the count of bytes
\* each was given.
RandomObfuscator(key) ==
    [cipher_ |-> Salsa20Cipher(key), buffer_ |-> <<>>,
     buffer_pos_ |-> BufferLen, calls |-> <<>>]

\* The obfuscator Import and Export make for a document.
NewObfuscator == RandomObfuscator(1)

\* RandomObfuscator::FillBuffer
FillBuffer(obfuscator) ==
    [obfuscator EXCEPT
        !.cipher_ = Salsa20Process(@, [i \in 1..BufferLen |-> 0]).cipher_,
        !.buffer_ = Salsa20Process(obfuscator.cipher_,
                                   [i \in 1..BufferLen |-> 0]).dst,
        !.buffer_pos_ = 0]

\* Mutant of ProcessLoop: the byte of the keystream is added to the byte
\* of the data.
RECURSIVE ProcessLoopAdding(_, _, _, _)
ProcessLoopAdding(obfuscator, data, i, obfuscated_data) ==
    IF i > Len(data)
    THEN [obfuscator |-> obfuscator, obfuscated_data |-> obfuscated_data]
    ELSE Then(IF obfuscator.buffer_pos_ = BufferLen
              THEN FillBuffer(obfuscator) ELSE obfuscator,
              LAMBDA filled :
                  ProcessLoopAdding(
                      [filled EXCEPT !.buffer_pos_ = @ + 1], data, i + 1,
                      Append(obfuscated_data,
                             (data[i] + filled.buffer_[filled.buffer_pos_ + 1])
                             % 256)))

\* The loop of RandomObfuscator::Process from the byte i of data on.
RECURSIVE ProcessLoop(_, _, _, _)
ProcessLoop(obfuscator, data, i, obfuscated_data) ==
    IF i > Len(data)
    THEN [obfuscator |-> obfuscator, obfuscated_data |-> obfuscated_data]
    ELSE Then(IF obfuscator.buffer_pos_ = BufferLen
              THEN FillBuffer(obfuscator) ELSE obfuscator,
              LAMBDA filled :
                  ProcessLoop(
                      [filled EXCEPT !.buffer_pos_ = @ + 1], data, i + 1,
                      Append(obfuscated_data,
                             BitXor(data[i],
                                    filled.buffer_[filled.buffer_pos_ + 1], 8))))

\* What RandomObfuscator::Process returns.
Process(data, obfuscator) ==
    ProcessLoop(obfuscator, data, 1, <<>>).obfuscated_data

\* Mutant of Processed: what is left of buffer_ is dropped when the call
\* returns.
ProcessedDroppingBuffer(data, obfuscator) ==
    [ProcessLoop(obfuscator, data, 1, <<>>).obfuscator EXCEPT
        !.buffer_pos_ = BufferLen,
        !.calls = Append(@, Len(data))]

\* The RandomObfuscator after Process(data).
Processed(data, obfuscator) ==
    [ProcessLoop(obfuscator, data, 1, <<>>).obfuscator EXCEPT
        !.calls = Append(@, Len(data))]

\* The concatenation of a sequence of sequences.
RECURSIVE Flatten(_)
Flatten(parts) == IF parts = <<>> THEN <<>> ELSE Head(parts) \o Flatten(Tail(parts))

\* No Ref attribute.
NoRef == -1

\* The number of objects ParseGroup allocates for an element.
RECURSIVE XmlSize(_)
RECURSIVE XmlSizes(_, _)
XmlSize(node) == 1 + Len(node.entries) + XmlSizes(node.groups, Len(node.groups))
XmlSizes(groups, n) ==
    IF n = 0 THEN 0 ELSE XmlSizes(groups, n - 1) + XmlSize(groups[n])

\* A Reset that leaves group_pool_ as it is.
ResetButGroups(instance) ==
    [instance EXCEPT !.binary_pool_ = <<>>, !.icon_pool_ = <<>>,
                      !.header_hash_ = kEmptyHash]

\* KdbxFile::Reset
Reset(instance) ==
    [instance EXCEPT !.binary_pool_ = <<>>, !.icon_pool_ = <<>>,
                      !.group_pool_ = <<>>, !.header_hash_ = kEmptyHash]

\* pool.find(key): the address of the object found, or 0.
RECURSIVE PoolFind(_, _, _)
PoolFind(pool, key, j) ==
    IF j > Len(pool) THEN 0
    ELSE IF pool[j].key = key THEN pool[j].addr
    ELSE PoolFind(pool, key, j + 1)

\* KdbxFile::GetGroup: group_pool_ after the call.  For a UUID the pool
\* does not hold, a Group is made (the object base + 1) and inserted; an
\* empty string (0) leaves the pool alone.
GetGroup(group_pool_, uuid_str, base) ==
    IF uuid_str = 0 \/ PoolFind(group_pool_, uuid_str, 1) # 0 THEN group_pool_
    ELSE Append(group_pool_, [key |-> uuid_str, addr |-> base + 1])

\* The shared_ptr GetGroup returns: null, or the Group the pool holds under
\* the UUID, which carries the UUID and nothing else.
GetGroupResult(group_pool_, uuid_str) ==
    IF uuid_str = 0 THEN NoGroup
    ELSE [NewGroup(PoolFind(group_pool_, uuid_str, 1)) EXCEPT !.uuid = uuid_str]

\* header_hash_ after ParseMeta: base64_decode overwrites as many bytes of
\* the array as the text of HeaderHash holds.
StoredHeaderHash(doc, header_hash_) ==
    IF doc.header_hash_size = 0 THEN header_hash_
    ELSE IF doc.header_hash_size < kHashSize THEN doc.header_hash \o <<0>>
    ELSE doc.header_hash

\* The Binary made of the decoded text `data` of a <Binary> element, as
\* the object `addr`, and the obfuscator afterwards: Process is called
\* when the element has the attribute Protected.
ParseBinary(node, addr, data, obfuscator) ==
    IF node.protected
    THEN [value |-> NewBinary(addr, Protect(Process(data, obfuscator), TRUE)),
          obfuscator |-> Processed(data, obfuscator)]
    ELSE [value |-> NewBinary(addr, Protect(data, FALSE)),
          obfuscator |-> obfuscator]

\* The loop of ParseMeta over the <Binary> elements of Meta/Binaries, from
\* the j-th on.
RECURSIVE ParseMetaBinaries(_, _, _, _)
ParseMetaBinaries(nodes, j, binaries, obfuscator) ==
    IF j > Len(nodes) THEN [binaries |-> binaries, obfuscator |-> obfuscator]
    ELSE Then(ParseBinary(nodes[j], j, base64_decode(nodes[j].text).value,
                          obfuscator),
              LAMBDA parsed :
                  ParseMetaBinaries(nodes, j + 1,
                                    Append(binaries, parsed.value),
                                    parsed.obfuscator))

\* binary_pool_ after ParseMeta inserted the binaries under their IDs.
ParsedBinaryPool(binary_pool_, nodes, binaries) ==
    binary_pool_ \o [j \in 1..Len(binaries) |->
                        [key |-> nodes[j].id, addr |-> binaries[j].addr,
                         binary |-> binaries[j]]]

\* The results of ParseMeta put together.
MetaParsed(doc, instance, pool1, pool2, icons, read, size) ==
    [meta |-> [NewMetadata EXCEPT
                  !.icons = icons,
                  !.binaries = read.binaries,
                  !.recycle_bin = GetGroupResult(pool1, doc.recycle_bin_uuid),
                  !.entry_templates =
                      GetGroupResult(pool2, doc.entry_templates_group)],
     kdbx_file |-> [instance EXCEPT
                       !.header_hash_ = StoredHeaderHash(doc, @),
                       !.group_pool_ = pool2,
                       !.binary_pool_ =
                           ParsedBinaryPool(@, doc.binaries, read.binaries),
                       !.icon_pool_ = @ \o [j \in 1..Len(icons) |->
                                               [key |-> icons[j].uuid,
                                                addr |-> icons[j].addr]]],
     obfuscator |-> read.obfuscator,
     size |-> size]

\* KdbxFile::ParseMeta: the Metadata, the KdbxFile afterwards, and the
\* number of objects allocated after `base`: the groups GetGroup made for
\* RecycleBinUUID and EntryTemplatesGroup, then the icons.
ParseMeta(doc, instance, base, obfuscator) ==
    LET before == Len(instance.group_pool_)
        pool1 == GetGroup(instance.group_pool_, doc.recycle_bin_uuid, base)
        pool2 == GetGroup(pool1, doc.entry_templates_group,
                          base + Len(pool1) - before)
        icon_base == base + Len(pool2) - before
        icons == [j \in 1..Len(doc.icons) |->
                     [addr |-> icon_base + j, uuid |-> doc.icons[j]]]
    IN  Then(ParseMetaBinaries(doc.binaries, 1, <<>>, obfuscator),
             LAMBDA read :
                 MetaParsed(doc, instance, pool1, pool2, icons, read,
                            icon_base + Len(icons) - base))

\* KdbxFile::ParseProtectedString of a <String> element whose text
\* decodes to `val`: the string and the obfuscator afterwards.  Process
\* is called only for a value that is not empty.
ProtectedStringOf(node, val, obfuscator) ==
    IF node.protected /\ val # <<>>
    THEN [value |-> Protect(Process(val, obfuscator), TRUE),
          obfuscator |-> Processed(val, obfuscator)]
    ELSE [value |-> Protect(node.text, node.protected),
          obfuscator |-> obfuscator]

\* KdbxFile::ParseProtectedString
ParseProtectedString(node, obfuscator) ==
    Then(base64_decode(node.text).value,
         LAMBDA val : ProtectedStringOf(node, val, obfuscator))

\* Entry::set_password for the key "Password", Entry::AddCustomField for
\* another key.
SetString(entry, key, val) ==
    IF key = "Password" THEN [entry EXCEPT !.password = val]
    ELSE [entry EXCEPT !.custom_fields = Append(@, [key |-> key, value |-> val])]

\* The loop of ParseEntry over the <String> elements, from the j-th on.
RECURSIVE ParseStrings(_, _, _, _)
ParseStrings(nodes, j, entry, obfuscator) ==
    IF j > Len(nodes) THEN [entry |-> entry, obfuscator |-> obfuscator]
    ELSE Then(ParseProtectedString(nodes[j], obfuscator),
              LAMBDA parsed :
                  ParseStrings(nodes, j + 1,
                               SetString(entry, nodes[j].key, parsed.value),
                               parsed.obfuscator))

\* binary_pool_.find(ref)->second
BinaryFind(binary_pool_, ref) ==
    binary_pool_[CHOOSE j \in 1..Len(binary_pool_) :
                    binary_pool_[j].key = ref].binary

\* A std::shared_ptr<Binary> that holds no object.
NullBinary == [null |-> TRUE]

\* Entry::AddAttachment
AddAttachment(entry, name, binary) ==
    [entry EXCEPT !.attachments = Append(@, NewAttachment(name, binary))]

\* The loop of ParseEntry over the <Binary> elements, from the j-th on.
\* Without a Value child `binary` stays null.  With Value/@Ref the
\* Binary is the one of the pool; without, a new one is made of the
\* Protected attribute and the text of the <Binary> element itself.
RECURSIVE ParseBinaries(_, _, _, _, _)
ParseBinaries(nodes, j, entry, binary_pool_, obfuscator) ==
    IF j > Len(nodes) THEN [entry |-> entry, obfuscator |-> obfuscator]
    ELSE IF ~nodes[j].has_value
         THEN ParseBinaries(nodes, j + 1,
                            AddAttachment(entry, nodes[j].key, NullBinary),
                            binary_pool_, obfuscator)
    ELSE IF nodes[j].ref # NoRef
         THEN ParseBinaries(nodes, j + 1,
                            AddAttachment(entry, nodes[j].key,
                                          BinaryFind(binary_pool_, nodes[j].ref)),
                            binary_pool_, obfuscator)
    ELSE Then(ParseBinary(nodes[j], 0, base64_decode(nodes[j].text).value,
                          obfuscator),
              LAMBDA parsed :
                  ParseBinaries(nodes, j + 1,
                                AddAttachment(entry, nodes[j].key, parsed.value),
                                binary_pool_, parsed.obfuscator))

\* KdbxFile::ParseEntry: the entry made as the object `addr` and the
\* obfuscator afterwards.  The strings are read first, then the binaries,
\* then the entries of the history, which are objects nothing refers to by
\* address (0).
RECURSIVE ParseEntry(_, _, _, _, _)
RECURSIVE ParseHistory(_, _, _, _, _, _)
ParseEntry(node, icon_pool_, binary_pool_, addr, obfuscator) ==
    Then(ParseStrings(node.strings, 1,
                      [NewEntry(addr) EXCEPT
                          !.uuid = node.uuid,
                          !.title = node.title,
                          !.custom_icon =
                              IF node.custom_icon_uuid = 0 THEN 0
                              ELSE PoolFind(icon_pool_, node.custom_icon_uuid, 1)],
                      obfuscator),
         LAMBDA strings :
             Then(ParseBinaries(node.binaries, 1, strings.entry, binary_pool_,
                                strings.obfuscator),
                  LAMBDA binaries :
                      ParseHistory(node.history, 1, binaries.entry, icon_pool_,
                                   binary_pool_, binaries.obfuscator)))
ParseHistory(nodes, j, entry, icon_pool_, binary_pool_, obfuscator) ==
    IF j > Len(nodes) THEN [entry |-> entry, obfuscator |-> obfuscator]
    ELSE Then(ParseEntry(nodes[j], icon_pool_, binary_pool_, 0, obfuscator),
              LAMBDA parsed :
                  ParseHistory(nodes, j + 1,
                               [entry EXCEPT !.history = Append(@, parsed.entry)],
                               icon_pool_, binary_pool_, parsed.obfuscator))

\* The entries whose UUID equals the array `uuid` holds when the entry loop
\* of ParseGroup runs: the decoded LastTopVisibleEntry, or, when that is
\* absent, still the UUID of the group.
LastVisibleHits(node) ==
    {j \in 1..Len(node.entries) :
        node.entries[j].uuid =
            (IF node.last_top_visible_entry # 0 THEN node.last_top_visible_entry
             ELSE node.uuid)}

Max(S) == CHOOSE x \in S : \A y \in S : y <= x

\* The loop of ParseGroup over the <Entry> elements, from the j-th on: the
\* j-th entry is the object base + 1 + j.
RECURSIVE ParseEntries(_, _, _, _, _, _, _)
ParseEntries(nodes, j, group, icon_pool_, binary_pool_, base, obfuscator) ==
    IF j > Len(nodes) THEN [group |-> group, obfuscator |-> obfuscator]
    ELSE Then(ParseEntry(nodes[j], icon_pool_, binary_pool_, base + 1 + j,
                         obfuscator),
              LAMBDA parsed :
                  ParseEntries(nodes, j + 1,
                               [group EXCEPT !.entries = Append(@, parsed.entry)],
                               icon_pool_, binary_pool_, base,
                               parsed.obfuscator))

\* KdbxFile::ParseGroup: the Group object, allocated after `base`, then
\* its entries, then its subgroups in order, and the obfuscator
\* afterwards.  The objects of the j-th subgroup are allocated after
\* `next`.
RECURSIVE ParseGroup(_, _, _, _, _)
RECURSIVE ParseGroups(_, _, _, _, _, _, _)
ParseGroup(node, icon_pool_, binary_pool_, base, obfuscator) ==
    Then(ParseEntries(node.entries, 1,
                      [NewGroup(base + 1) EXCEPT
                          !.uuid = node.uuid,
                          !.name = node.name,
                          !.custom_icon =
                              IF node.custom_icon_uuid = 0 THEN 0
                              ELSE PoolFind(icon_pool_, node.custom_icon_uuid, 1),
                          !.last_visible_entry =
                              IF LastVisibleHits(node) = {} THEN 0
                              ELSE base + 1 + Max(LastVisibleHits(node))],
                      icon_pool_, binary_pool_, base, obfuscator),
         LAMBDA entries :
             ParseGroups(node.groups, 1, entries.group, icon_pool_,
                         binary_pool_, base + 1 + Len(node.entries),
                         entries.obfuscator))
ParseGroups(nodes, j, group, icon_pool_, binary_pool_, next, obfuscator) ==
    IF j > Len(nodes) THEN [group |-> group, obfuscator |-> obfuscator]
    ELSE Then(ParseGroup(nodes[j], icon_pool_, binary_pool_, next, obfuscator),
              LAMBDA parsed :
                  ParseGroups(nodes, j + 1,
                              [group EXCEPT !.groups = Append(@, parsed.group)],
                              icon_pool_, binary_pool_,
                              next + XmlSize(nodes[j]), parsed.obfuscator))

\* The insertions into group_pool_ that ParseGroup makes for a group and
\* its subgroups: each group before its subgroups, in document order.
RECURSIVE GroupPool(_)
RECURSIVE GroupPools(_, _)
GroupPool(group) ==
    <<[key |-> group.uuid, addr |-> group.addr]>>
    \o GroupPools(group.groups, Len(group.groups))
GroupPools(groups, n) ==
    IF n = 0 THEN <<>> ELSE GroupPools(groups, n - 1) \o GroupPool(groups[n])

\* What stops ParseEntry: a UUID longer than the array (bounds_checked
\* throws std::out_of_range), an unknown custom icon or a second match of
\* LastTopVisibleEntry (assert, when assertions are compiled in).
EntryError(node, j, icon_pool_, debug) ==
    IF node.entries[j].uuid_size > kUuidSize THEN "out_of_range"
    ELSE IF /\ debug
            /\ node.entries[j].custom_icon_uuid # 0
            /\ PoolFind(icon_pool_, node.entries[j].custom_icon_uuid, 1) = 0
         THEN "abort"
    ELSE IF debug /\ \E i \in LastVisibleHits(node) : i < j /\ j \in LastVisibleHits(node)
         THEN "abort"
    ELSE "none"

\* The first of a sequence of results that is not "none".
RECURSIVE FirstError(_, _)
FirstError(errors, j) ==
    IF j > Len(errors) THEN "none"
    ELSE IF errors[j] # "none" THEN errors[j]
    ELSE FirstError(errors, j + 1)

\* What stops ParseGroup at the group itself or at one of its entries.
OwnError(node, icon_pool_, debug) ==
    IF node.uuid_size > kUuidSize THEN "out_of_range"
    ELSE IF /\ debug
            /\ node.custom_icon_uuid # 0
            /\ PoolFind(icon_pool_, node.custom_icon_uuid, 1) = 0
         THEN "abort"
    ELSE FirstError([j \in 1..Len(node.entries) |->
                        EntryError(node, j, icon_pool_, debug)], 1)

\* What stops ParseGroup, in document order.
RECURSIVE GroupError(_, _, _)
GroupError(node, icon_pool_, debug) ==
    IF OwnError(node, icon_pool_, debug) # "none"
    THEN OwnError(node, icon_pool_, debug)
    ELSE FirstError([j \in 1..Len(node.groups) |->
                        GroupError(node.groups[j], icon_pool_, debug)], 1)

\* The number of groups ParseGroup has inserted into group_pool_ when it
\* returns or is stopped.
RECURSIVE GroupsInserted(_, _, _)
RECURSIVE GroupsInsertedOf(_, _, _, _)
GroupsInserted(node, icon_pool_, debug) ==
    IF OwnError(node, icon_pool_, debug) # "none" THEN 1
    ELSE 1 + GroupsInsertedOf(node.groups, 1, icon_pool_, debug)
GroupsInsertedOf(groups, j, icon_pool_, debug) ==
    IF j > Len(groups) THEN 0
    ELSE IF GroupError(groups[j], icon_pool_, debug) # "none"
         THEN GroupsInserted(groups[j], icon_pool_, debug)
    ELSE GroupsInserted(groups[j], icon_pool_, debug)
         + GroupsInsertedOf(groups, j + 1, icon_pool_, debug)

\* KdbxFile::ParseXml: what stops it, or "none".
XmlError(doc, debug, instance) ==
    LET parsed == ParseMeta(doc, instance, 0, NewObfuscator)
        icon_pool_ == parsed.kdbx_file.icon_pool_
        group_pool_ == parsed.kdbx_file.group_pool_
                       \o GroupPool(ParseGroup(doc.root, icon_pool_,
                                                parsed.kdbx_file.binary_pool_,
                                                parsed.size,
                                                parsed.obfuscator).group)
    IN  IF ~doc.well_formed THEN "Format"
        ELSE IF doc.header_hash_size > kHashSize THEN "out_of_range"
        ELSE IF GroupError(doc.root, icon_pool_, debug) # "none"
             THEN GroupError(doc.root, icon_pool_, debug)
        ELSE IF /\ debug
                /\ \/ PoolFind(group_pool_, doc.last_selected_group, 1) = 0
                   \/ PoolFind(group_pool_, doc.last_top_visible_group, 1) = 0
             THEN "abort"
        ELSE "none"

\* The results of ParseXml put together.
XmlParsed(doc, debug, instance, parsed, root, group_pool_) ==
    [error |-> XmlError(doc, debug, instance),
     root |-> root.group,
     obfuscator |-> root.obfuscator,
     meta |-> [parsed.meta EXCEPT
                  !.last_selected_group =
                      PoolFind(group_pool_, doc.last_selected_group, 1),
                  !.last_visible_group =
                      PoolFind(group_pool_, doc.last_top_visible_group, 1)],
     size |-> parsed.size + XmlSize(doc.root),
     kdbx_file |->
         IF ~doc.well_formed THEN instance
         ELSE IF doc.header_hash_size > kHashSize
              THEN [instance EXCEPT !.header_hash_ = doc.header_hash]
         ELSE [parsed.kdbx_file EXCEPT
                  !.group_pool_ =
                      @ \o Take(GroupPool(root.group),
                                GroupsInserted(doc.root,
                                               parsed.kdbx_file.icon_pool_,
                                               debug))]]

\* KdbxFile::ParseXml: the root and the Metadata it sets on the Database,
\* the number of objects allocated after `base`, and the KdbxFile
\* afterwards, also when the call was stopped.  LastSelectedGroup and
\* LastTopVisibleGroup are looked up in group_pool_ once the groups are
\* read.
ParseXml(doc, debug, instance, base) ==
    Then(ParseMeta(doc, instance, base, NewObfuscator),
         LAMBDA parsed :
             Then(ParseGroup(doc.root, parsed.kdbx_file.icon_pool_,
                             parsed.kdbx_file.binary_pool_, base + parsed.size,
                             parsed.obfuscator),
                  LAMBDA root :
                      XmlParsed(doc, debug, instance, parsed, root,
                                parsed.kdbx_file.group_pool_
                                \o GroupPool(root.group))))

\* The calls of Process that ParseXml makes for a document, in order.
ParseXmlCalls(doc) == ParseXml(doc, FALSE, NewKdbxFile, 0).obfuscator.calls

\* The outer header of a KDBX file: the KdbxHeader and the header fields.
\* `fields` is "ok", or what is wrong with the sequence of fields.
KdbxHeader(compression_flags, master_seed, transform_seed, transform_rounds, start_bytes) ==
    [version |-> kKdbxVersionCriticalMin, fields |-> "ok",
     compression_flags |-> compression_flags, master_seed |-> master_seed,
     transform_seed |-> transform_seed, transform_rounds |-> transform_rounds,
     start_bytes |-> start_bytes]

\* SHA-256 of the file from offset 0 through the EndOfHeader field.
HeaderHash(header) == Sha256(<<header>>)

\* The validation of the header hash that ends Import.
HeaderChecksumError(header_hash_, header) ==
    IF header_hash_ # HeaderHash(header) THEN "Format" ELSE "none"

\* The decrypted content of a KDBX file: the stream start bytes and the
\* hashed-block stream, which carries the document, gzipped or not.
KdbxContent(start_bytes, gzip, xml) ==
    [start_bytes |-> start_bytes, blocks_intact |-> TRUE, gzip |-> gzip,
     xml |-> xml]

\* A KDBX file.
KdbxFile(header, xml, final_key) ==
    [kind |-> "kdbx", complete |-> TRUE, signature |-> TRUE,
     header |-> header,
     content |-> Seal(KdbxContent(header.start_bytes,
                                  header.compression_flags = kGzip, xml),
                      final_key, kAes)]

\* KdbxFile::Import up to the call of Key::Transform: the exception thrown,
\* or "none".
KdbxOpen(f) ==
    IF f.kind = "none" THEN "FileNotFound"
    ELSE IF f.kind # "kdbx" THEN "Format"
    ELSE IF ~f.complete THEN "Format"
    ELSE IF ~f.signature THEN "Format"
    ELSE IF VersionCritical(f.header.version) > VersionCritical(kKdbxVersionCriticalMin)
         THEN "Format"
    ELSE IF f.header.fields = "truncated" THEN "Io"
    ELSE IF f.header.fields # "ok" THEN "Format"
    ELSE IF f.header.compression_flags > kCount THEN "Format"
    ELSE "none"

\* The first 32 bytes of a decrypted content.
StartBytes(plain) ==
    IF plain = Garbage THEN Garbage ELSE [bytes |-> plain.start_bytes]

\* KdbxFile::Import from the return of Key::Transform on.  `debug` tells
\* whether assertions are compiled in, `base` the number of objects
\* allocated before, `instance` the KdbxFile as Reset left it.
KdbxImportResult(f, transformed_key, debug, base, instance) ==
    LET final_key == FinalKey(f.header.master_seed, transformed_key)
        Fail(error, decoded, after) ==
            {[error |-> error, decoded |-> decoded, root |-> NewGroup(0),
              meta |-> NewMetadata, size |-> 0, kdbx_file |-> after]}
        Parsed(plain, parsed, checksum) ==
            IF ~plain.blocks_intact THEN Fail("Format", TRUE, instance)
            ELSE IF plain.gzip # (f.header.compression_flags = kGzip)
                 THEN Fail("Format", TRUE, instance)
            ELSE IF parsed.error # "none"
                 THEN Fail(parsed.error, TRUE, parsed.kdbx_file)
            ELSE IF checksum # "none"
                 THEN Fail(checksum, TRUE, parsed.kdbx_file)
            ELSE {[error |-> "none", decoded |-> TRUE, root |-> parsed.root,
                   meta |-> parsed.meta, size |-> parsed.size,
                   kdbx_file |-> parsed.kdbx_file]}
        Parse(plain) ==
            Then(ParseXml(plain.xml, debug, instance, base),
                 LAMBDA parsed :
                     Parsed(plain, parsed,
                            HeaderChecksumError(parsed.kdbx_file.header_hash_,
                                                f.header)))
    IN  UNION {
            IF out.error # "none" THEN Fail("Password", FALSE, instance)
            ELSE IF StartBytes(out.plain) # [bytes |-> f.header.start_bytes]
                 THEN Fail("Password", FALSE, instance)
            ELSE Parse(out.plain) :
            out \in Unseal(f.content, final_key, kAes)}

\* The UUID of the object with the address `addr` among `objects`, or 0.
RECURSIVE UuidOf(_, _, _)
UuidOf(objects, addr, j) ==
    IF j > Len(objects) THEN 0
    ELSE IF objects[j].addr = addr THEN objects[j].uuid
    ELSE UuidOf(objects, addr, j + 1)

\* The strings WriteEntry writes after Title, in order: the password,
\* then the custom fields.
EntryStrings(entry) ==
    <<[key |-> "Password", value |-> entry.password]>> \o entry.custom_fields

\* KdbxFile::WriteProtectedString for the string `key`: the <String>
\* element and the obfuscator afterwards.  Process is called for every
\* protected string.
WriteProtectedString(key, str, obfuscator) ==
    IF str.protected
    THEN [node |-> [key |-> key, protected |-> TRUE,
                    text |-> base64_encode(Process(str.value, obfuscator))],
          obfuscator |-> Processed(str.value, obfuscator)]
    ELSE [node |-> [key |-> key, protected |-> FALSE, text |-> str.value],
          obfuscator |-> obfuscator]

\* The loop of WriteEntry over the strings, from the j-th on.
RECURSIVE WriteStrings(_, _, _, _)
WriteStrings(strings, j, node, obfuscator) ==
    IF j > Len(strings) THEN [node |-> node, obfuscator |-> obfuscator]
    ELSE Then(WriteProtectedString(strings[j].key, strings[j].value, obfuscator),
              LAMBDA written :
                  WriteStrings(strings, j + 1,
                               [node EXCEPT !.strings = Append(@, written.node)],
                               written.obfuscator))

\* The Ref of the Binary `binary` in binary_pool_ (it.second ==
\* attachment->binary()), or NoRef.
BinaryRef(binary_pool_, binary) ==
    IF \E j \in 1..Len(binary_pool_) :
          binary.addr # 0 /\ binary_pool_[j].addr = binary.addr
    THEN binary_pool_[CHOOSE j \in 1..Len(binary_pool_) :
                         binary_pool_[j].addr = binary.addr].key
    ELSE NoRef

\* The <Binary> element with Key and with the Value WriteEntry gives it;
\* the element itself has no Protected attribute and no text.  has_value
\* tells that the element has a Value child.
XmlBinary(key, ref, value) ==
    [key |-> key, protected |-> FALSE, text |-> <<>>, has_value |-> TRUE,
     ref |-> ref, value |-> value]

\* The <Binary> element WriteEntry writes for an attachment: a Value with
\* a Ref for a Binary of the pool, or with the data in base64.
WriteEntryBinary(attachment, ref) ==
    IF ref # NoRef THEN XmlBinary(attachment.name, ref, <<>>)
    ELSE XmlBinary(attachment.name, ref,
                   base64_encode(attachment.binary.data.value))

\* The <Binary> elements WriteEntry writes.
WriteEntryBinaries(attachments, binary_pool_) ==
    [j \in 1..Len(attachments) |->
        WriteEntryBinary(attachments[j],
                         BinaryRef(binary_pool_, attachments[j].binary))]

\* KdbxFile::WriteEntry: the <Entry> element and the obfuscator
\* afterwards.  The strings are written first, then the binaries, then
\* the entries of the history.
RECURSIVE WriteEntry(_, _, _, _)
RECURSIVE WriteHistory(_, _, _, _, _, _)
WriteEntry(entry, icons, binary_pool_, obfuscator) ==
    Then(WriteStrings(EntryStrings(entry), 1,
                      XmlEntry(entry.uuid, entry.title,
                               UuidOf(icons, entry.custom_icon, 1)),
                      obfuscator),
         LAMBDA strings :
             WriteHistory(entry.history, 1,
                          [strings.node EXCEPT
                              !.binaries =
                                  WriteEntryBinaries(entry.attachments,
                                                     binary_pool_)],
                          icons, binary_pool_, strings.obfuscator))
WriteHistory(entries, j, node, icons, binary_pool_, obfuscator) ==
    IF j > Len(entries) THEN [node |-> node, obfuscator |-> obfuscator]
    ELSE Then(WriteEntry(entries[j], icons, binary_pool_, obfuscator),
              LAMBDA written :
                  WriteHistory(entries, j + 1,
                               [node EXCEPT !.history = Append(@, written.node)],
                               icons, binary_pool_, written.obfuscator))

\* The loop of WriteGroup over the entries, from the j-th on.
RECURSIVE WriteEntries(_, _, _, _, _, _)
WriteEntries(entries, j, nodes, icons, binary_pool_, obfuscator) ==
    IF j > Len(entries) THEN [nodes |-> nodes, obfuscator |-> obfuscator]
    ELSE Then(WriteEntry(entries[j], icons, binary_pool_, obfuscator),
              LAMBDA written :
                  WriteEntries(entries, j + 1, Append(nodes, written.node),
                               icons, binary_pool_, written.obfuscator))

\* The <Group> element WriteGroup makes of the entries and subgroups
\* it wrote.
GroupWritten(group, icons, entries, groups) ==
    [node |-> XmlGroup(group.uuid, group.name,
                       UuidOf(icons, group.custom_icon, 1),
                       UuidOf(group.entries, group.last_visible_entry, 1),
                       entries.nodes, groups.nodes),
     obfuscator |-> groups.obfuscator]

\* KdbxFile::WriteGroup: the <Group> element and the obfuscator
\* afterwards.  The entries are written first, then the subgroups.
RECURSIVE WriteGroup(_, _, _, _)
RECURSIVE WriteGroups(_, _, _, _, _, _)
WriteGroup(group, icons, binary_pool_, obfuscator) ==
    Then(WriteEntries(group.entries, 1, <<>>, icons, binary_pool_, obfuscator),
         LAMBDA entries :
             Then(WriteGroups(group.groups, 1, <<>>, icons, binary_pool_,
                              entries.obfuscator),
                  LAMBDA groups : GroupWritten(group, icons, entries, groups)))
WriteGroups(groups, j, nodes, icons, binary_pool_, obfuscator) ==
    IF j > Len(groups) THEN [nodes |-> nodes, obfuscator |-> obfuscator]
    ELSE Then(WriteGroup(groups[j], icons, binary_pool_, obfuscator),
              LAMBDA written :
                  WriteGroups(groups, j + 1, Append(nodes, written.node),
                              icons, binary_pool_, written.obfuscator))

\* The <Binary> element WriteMeta writes for a binary of the Metadata,
\* and the obfuscator afterwards.
WriteMetaBinary(binary, id, obfuscator) ==
    IF binary.data.protected
    THEN [node |-> [id |-> id, protected |-> TRUE,
                    text |-> base64_encode(Process(binary.data.value,
                                                   obfuscator))],
          obfuscator |-> Processed(binary.data.value, obfuscator)]
    ELSE [node |-> [id |-> id, protected |-> FALSE,
                    text |-> base64_encode(binary.data.value)],
          obfuscator |-> obfuscator]

\* The loop of WriteMeta over the binaries of the Metadata, from the
\* j-th on, which gets the ID j - 1.
RECURSIVE WriteMetaBinaries(_, _, _, _)
WriteMetaBinaries(binaries, j, nodes, obfuscator) ==
    IF j > Len(binaries) THEN [nodes |-> nodes, obfuscator |-> obfuscator]
    ELSE Then(WriteMetaBinary(binaries[j], j - 1, obfuscator),
              LAMBDA written :
                  WriteMetaBinaries(binaries, j + 1, Append(nodes, written.node),
                                    written.obfuscator))

\* binary_pool_ as WriteMeta leaves it
WrittenBinaryPool(binaries) ==
    [j \in 1..Len(binaries) |->
        [key |-> j - 1, addr |-> binaries[j].addr, binary |-> binaries[j]]]

\* The key under which a pool holds the object `addr`, or 0.
RECURSIVE PoolKey(_, _, _)
PoolKey(pool, addr, j) ==
    IF j > Len(pool) THEN 0
    ELSE IF pool[j].addr = addr THEN pool[j].key
    ELSE PoolKey(pool, addr, j + 1)

\* group->uuid() of the Group a weak_ptr of the Metadata locks: a group of
\* the tree, or one recycle_bin_ or entry_templates_ keeps alive; 0 for an
\* empty weak_ptr.
LockedUuid(database, addr) ==
    PoolKey(GroupPool(database.root)
            \o <<[key |-> IF database.meta.recycle_bin.addr = 0 THEN 0
                          ELSE database.meta.recycle_bin.uuid,
                  addr |-> database.meta.recycle_bin.addr],
                 [key |-> IF database.meta.entry_templates.addr = 0 THEN 0
                          ELSE database.meta.entry_templates.uuid,
                  addr |-> database.meta.entry_templates.addr]>>,
            addr, 1)

\* The document WriteXml makes of what WriteMeta and WriteGroup wrote.
XmlWritten(database, header_hash_, binaries, root) ==
    [doc |->
         [XmlDocument(header_hash_,
                      LockedUuid(database, database.meta.last_selected_group),
                      LockedUuid(database, database.meta.last_visible_group),
                      [j \in 1..Len(database.meta.icons) |->
                          database.meta.icons[j].uuid],
                      root.node)
          EXCEPT !.binaries = binaries.nodes,
                 !.recycle_bin_uuid =
                     IF database.meta.recycle_bin.addr = 0 THEN 0
                     ELSE database.meta.recycle_bin.uuid,
                 !.entry_templates_group =
                     IF database.meta.entry_templates.addr = 0 THEN 0
                     ELSE database.meta.entry_templates.uuid],
     obfuscator |-> root.obfuscator]

\* KdbxFile::WriteXml with KdbxFile::WriteMeta: the document and the
\* obfuscator afterwards.  WriteGroup goes on with the obfuscator WriteMeta
\* has used.
WriteXmlResult(database, header_hash_) ==
    Then(WriteMetaBinaries(database.meta.binaries, 1, <<>>, NewObfuscator),
         LAMBDA binaries :
             Then(WriteGroup(database.root, database.meta.icons,
                             WrittenBinaryPool(database.meta.binaries),
                             binaries.obfuscator),
                  LAMBDA root :
                      XmlWritten(database, header_hash_, binaries, root)))

\* KdbxFile::WriteXml with KdbxFile::WriteMeta
WriteXml(database, header_hash_) == WriteXmlResult(database, header_hash_).doc

\* The calls of Process that WriteXml makes for a Database, in order.
WriteXmlCalls(database) ==
    WriteXmlResult(database, kEmptyHash).obfuscator.calls

\* KdbxFile::Import, up to the call of Key::Transform.
KdbxImportBegin(path) ==
    /\ CanImport(path, "KdbxExport") \/ CanImportAgain(path)
    /\ kdbx_file' = Reset(kdbx_file)
    /\ IF KdbxOpen(file[path]) # "none"
       THEN /\ call' = Ended("KdbxImport", path,
                             [error |-> KdbxOpen(file[path]), decoded |-> FALSE])
            /\ UNCHANGED transform
       ELSE /\ call' = [op |-> "KdbxImport", path |-> path, pc |-> "transform",
                        error |-> "none", decoded |-> FALSE,
                        failures |-> call.failures]
            /\ transform' = TransformCall(file[path].header.transform_seed,
                                          file[path].header.transform_rounds,
                                          kHashSubKeys)
    /\ UNCHANGED <<file, db, db2, heap, codecEnv>>

\* KdbxFile::Import, from the return of Key::Transform on.
KdbxImportEnd ==
    /\ call.op = "KdbxImport" /\ call.pc = "transform"
    /\ transform.pc = "done"
    /\ \E result \in KdbxImportResult(file[call.path], transform.transformed_key,
                                      assertions, heap, kdbx_file) :
          LET header == file[call.path].header
              made == [NewDatabase(result.root) EXCEPT
                          !.meta = result.meta,
                          !.compress = (header.compression_flags = kGzip),
                          !.master_seed = header.master_seed,
                          !.transform_seed = header.transform_seed,
                          !.transform_rounds = header.transform_rounds]
          IN  /\ call' = Ended("KdbxImport", call.path, result)
              /\ kdbx_file' = result.kdbx_file
              /\ IF result.error # "none"
                 THEN UNCHANGED <<db, db2, heap>>
                 ELSE /\ heap' = heap + result.size
                      /\ IF call.path = "src"
                         THEN db' = made /\ UNCHANGED db2
                         ELSE db2' = made /\ UNCHANGED db
    /\ transform' = TransformIdle
    /\ UNCHANGED <<file, codecEnv>>

\* KdbxFile::Export, up to the call of Key::Transform.
KdbxExportBegin ==
    /\ CanExport("KdbxImport") \/ CanExportBuilt
    /\ kdbx_file' = Reset(kdbx_file)
    /\ call' = [op |-> "KdbxExport", path |-> "dst", pc |-> "transform",
                error |-> "none", decoded |-> FALSE,
                failures |-> call.failures]
    /\ transform' = TransformCall(db.transform_seed, db.transform_rounds,
                                  kHashSubKeys)
    /\ UNCHANGED <<file, db, db2, heap, codecEnv>>

\* The values random_array<32>() returns.
StartByteValues == 1..2

\* KdbxFile::Export, from the return of Key::Transform on;
\* content_start_bytes is what random_array returned.  The header is
\* written to the file before the document is made; WriteMeta asserts that
\* the Metadata has an entry_templates group.
KdbxExportEnd(content_start_bytes) ==
    /\ call.op = "KdbxExport" /\ call.pc = "transform"
    /\ transform.pc = "done"
    /\ LET header == KdbxHeader(IF db.compress THEN kGzip ELSE kNone,
                                db.master_seed, db.transform_seed,
                                db.transform_rounds, content_start_bytes)
           written == KdbxFile(header, WriteXml(db, HeaderHash(header)),
                               FinalKey(db.master_seed, transform.transformed_key))
       IN  /\ kdbx_file' = [kdbx_file EXCEPT
                               !.header_hash_ = HeaderHash(header),
                               !.binary_pool_ = WrittenBinaryPool(db.meta.binaries)]
           /\ IF assertions /\ db.meta.entry_templates.addr = 0
              THEN /\ file' = [file EXCEPT !["dst"] =
                                  [written EXCEPT !.content.damaged = TRUE]]
                   /\ call' = [call EXCEPT !.pc = "idle", !.error = "abort"]
              ELSE /\ file' = [file EXCEPT !["dst"] = written]
                   /\ call' = [call EXCEPT !.pc = "idle"]
    /\ transform' = TransformIdle
    /\ UNCHANGED <<db, db2, heap, codecEnv>>

----------------------------------------------------------------------------
(* Specifications.                                                         *)

KeyIdle ==
    /\ password_key_ = kEmptyKey
    /\ keyfile_key_ = kEmptyKey
    /\ key_error = "none"
    /\ transform = TransformIdle

CbcIdle == cbc = [pc |-> "idle"]

HashedIdle ==
    /\ hashed_ostreambuf = NewHashedOstreambuf(1)
    /\ hashed_istreambuf = NewHashedIstreambuf
    /\ hashed_log = NewHashedLog

InitKey == KeyIdle /\ CbcIdle /\ HashedIdle /\ CodecIdle /\ RefsIdle /\ PureIdle

NextKey ==
    \/ \E p \in Passwords : SetPassword(p)
    \/ \E key_file \in KeyFiles : SetKeyFile(key_file)
    \/ \E s \in Seeds, r \in 0..MaxRounds, res \in Resolutions :
          TransformBegin(s, r, res)
    \/ TransformStep
    \/ TransformReturn

SpecKey == InitKey /\ [][NextKey]_vars


\* Every plaintext of up to MaxPlainLen bytes, under every key.
InitCbc ==
    /\ KeyIdle /\ HashedIdle /\ CodecIdle /\ RefsIdle /\ PureIdle
    /\ \E src \in SeqsUpTo(PlainBytes, MaxPlainLen), key \in CipherKeys :
          cbc = [pc |-> "ready", src |-> src, key |-> key]

NextCbc ==
    \/ CbcEncrypt
    \/ \E key \in CipherKeys : CbcDecrypt(key)

SpecCbc == InitCbc /\ [][NextCbc]_vars

\* A writer of every block size up to MaxBlockSize.
InitHashed ==
    /\ KeyIdle /\ CbcIdle /\ CodecIdle /\ RefsIdle /\ PureIdle
    /\ \E block_size \in 1..MaxBlockSize :
          hashed_ostreambuf = NewHashedOstreambuf(block_size)
    /\ hashed_istreambuf = NewHashedIstreambuf
    /\ hashed_log = NewHashedLog

BlockHashes ==
    {kEmptyHash} \cup {GetBlockHash(d) : d \in SeqsUpTo(StreamBytes, MaxBlockSize)}

NextHashed ==
    \/ \E c \in StreamBytes : HashedPut(c)
    \/ HashedFlush
    \/ \E k \in 1..(MaxData + MaxSyncs), v \in 0..(MaxData + MaxSyncs) : AlterIndex(k, v)
    \/ \E k \in 1..(MaxData + MaxSyncs), h \in BlockHashes : AlterHash(k, h)
    \/ \E k \in 1..(MaxData + MaxSyncs), j \in 1..MaxBlockSize, v \in StreamBytes :
          AlterData(k, j, v)
    \/ HashedOpen
    \/ HashedUnderflow

SpecHashed == InitHashed /\ [][NextHashed]_vars

\* The files and the credentials of the codec scenarios.
MaxGroups == 6
MaxLevel == 3

\* A Key after SetPassword, after SetKeyFile, and after both.
KeyFileKey == [j \in 1..KeyLen |-> 1]
Credentials ==
    {[pw |-> Sha256(<<p>>), kf |-> kEmptyKey] : p \in Passwords}
    \cup {[pw |-> kEmptyKey, kf |-> KeyFileKey],
          [pw |-> Sha256(<<1>>), kf |-> KeyFileKey]}

\* A KDB file as a KeePass 1.x writer leaves it under the credential c.
KdbWritten(c, flags, rounds, plain) ==
    KdbFile(flags, 1, 1, rounds, plain,
            FinalKey(1, Transformed(Resolve(c.pw, c.kf, kHashSubKeysOnlyIfCompositeKey),
                                    1, rounds)))

\* Group records numbered as a foreign writer numbers them, with the given
\* levels; the name of a group tells its position in the file.
KdbGroupsAt(levels) ==
    [k \in 1..Len(levels) |-> KdbGroup(10 + k, levels[k], k)]

\* Every sequence of up to MaxGroups levels, each up to MaxLevel.
KdbTreeFiles ==
    {KdbWritten([pw |-> Sha256(<<1>>), kf |-> kEmptyKey], kKdbFlagRijndael, 0,
                KdbContent(KdbGroupsAt(levels), <<>>)) :
        levels \in SeqsUpTo(0..MaxLevel, MaxGroups)}

\* Small contents: with entries, with an entry of no group, with a field
\* type outside the enumeration, with the largest level.
KdbSmallContents ==
    {KdbContent(<<>>, <<>>),
     KdbContent(KdbGroupsAt(<<0>>), <<KdbEntry(51, 11, 1)>>),
     KdbContent(KdbGroupsAt(<<0, 1>>), <<KdbEntry(51, 12, 1), KdbEntry(52, 11, 2)>>),
     KdbContent(KdbGroupsAt(<<0>>), <<KdbEntry(51, 17, 1)>>),
     KdbContent(<<[KdbGroup(11, 0, 1) EXCEPT !.illegal_field = TRUE]>>, <<>>),
     KdbContent(KdbGroupsAt(<<0>>),
                <<[KdbEntry(51, 11, 1) EXCEPT !.illegal_field = TRUE]>>),
     KdbContent(KdbGroupsAt(<<LevelMod - 1>>), <<>>),
     KdbContent(KdbGroupsAt(<<0, LevelMod - 1, 0>>), <<>>)}

KdbSmallFiles ==
    {KdbWritten(c, flags, rounds, plain) :
        c \in Credentials, flags \in {kKdbFlagRijndael, kKdbFlagTwofish},
        rounds \in 0..1, plain \in KdbSmallContents}

\* The ways a file can be off.
KdbDefects(f) ==
    {[f EXCEPT !.complete = FALSE],
     [f EXCEPT !.signature = FALSE],
     [f EXCEPT !.content.damaged = TRUE],
     [f EXCEPT !.content_hash = ContentHash([other |-> TRUE])],
     [f EXCEPT !.num_entries = @ + 1]}
    \cup {[f EXCEPT !.version = v] :
            v \in {65536, 131072, kKdbVersion3 + 2, kKdbVersion3 + 256, 262144}}
    \cup {[f EXCEPT !.flags = v] : v \in {0, 1, kKdbFlagRijndael + kKdbFlagTwofish}}

KdbDefectFiles ==
    UNION {KdbDefects(KdbWritten(c, kKdbFlagRijndael, 0,
                                 KdbContent(KdbGroupsAt(<<0>>), <<KdbEntry(51, 11, 1)>>))) :
              c \in Credentials}

\* A KDBX file as a KeePass 2.x writer leaves it under the credential c:
\* the document carries the hash of the header.
KdbxWritten(c, compression_flags, rounds, xml) ==
    LET header == KdbxHeader(compression_flags, 1, 1, rounds, 1)
    IN  KdbxFile(header, [xml EXCEPT !.header_hash = HeaderHash(header)],
                 FinalKey(1, Transformed(Resolve(c.pw, c.kf, kHashSubKeys), 1, rounds)))

\* Documents: a lone root; entries and a subgroup; custom icons on a
\* group and on an entry; a last top visible entry; a recycle bin and a
\* group of entry templates among the groups.
KdbxDocuments ==
    {[XmlDocument(<<>>, 1, 2, <<>>,
          XmlGroup(1, 1, 0, 0, <<XmlEntry(51, 1, 0)>>,
                   <<XmlGroup(2, 2, 0, 0, <<XmlEntry(52, 2, 0)>>, <<>>),
                     XmlGroup(3, 3, 0, 0, <<>>, <<>>)>>))
         EXCEPT !.recycle_bin_uuid = 2, !.entry_templates_group = 3]}
    \cup
    {XmlDocument(<<>>, 1, 1, <<>>, XmlGroup(1, 1, 0, 0, <<>>, <<>>)),
     XmlDocument(<<>>, 1, 2, <<>>,
         XmlGroup(1, 1, 0, 0, <<XmlEntry(51, 1, 0)>>,
                  <<XmlGroup(2, 2, 0, 0, <<XmlEntry(52, 2, 0)>>, <<>>),
                    XmlGroup(3, 3, 0, 0, <<>>, <<>>)>>)),
     XmlDocument(<<>>, 1, 1, <<71>>, XmlGroup(1, 1, 71, 0, <<>>, <<>>)),
     XmlDocument(<<>>, 1, 1, <<71, 72>>,
         XmlGroup(1, 1, 0, 0, <<XmlEntry(51, 1, 72)>>, <<>>)),
     XmlDocument(<<>>, 1, 1, <<>>,
         XmlGroup(1, 1, 0, 52, <<XmlEntry(51, 1, 0), XmlEntry(52, 2, 0)>>, <<>>))}

\* Documents that are off: a UUID whose text decodes to more than 16
\* bytes, a custom icon no <Icon> declares, Meta without LastSelectedGroup,
\* no well-formed XML, Meta without EntryTemplatesGroup.
KdbxOddDocuments ==
    {[XmlDocument(<<>>, 1, 1, <<>>, XmlGroup(1, 1, 0, 0, <<>>, <<>>))
         EXCEPT !.entry_templates_group = 0]}
    \cup
    {XmlDocument(<<>>, 1, 1, <<>>,
         [XmlGroup(1, 1, 0, 0, <<>>, <<>>) EXCEPT !.uuid_size = kUuidSize + 1]),
     XmlDocument(<<>>, 1, 1, <<>>,
         XmlGroup(1, 1, 0, 0,
                  <<[XmlEntry(51, 1, 0) EXCEPT !.uuid_size = kUuidSize + 1]>>, <<>>)),
     XmlDocument(<<>>, 1, 1, <<71>>, XmlGroup(1, 1, 72, 0, <<>>, <<>>)),
     XmlDocument(<<>>, 0, 0, <<>>, XmlGroup(1, 1, 0, 0, <<>>, <<>>)),
     [XmlDocument(<<>>, 1, 1, <<>>, XmlGroup(1, 1, 0, 0, <<>>, <<>>))
         EXCEPT !.well_formed = FALSE]}

KdbxSmallFiles ==
    {KdbxWritten(c, flags, rounds, xml) :
        c \in Credentials, flags \in {kNone, kGzip}, rounds \in 0..1,
        xml \in KdbxDocuments}
    \cup {KdbxWritten(c, kNone, 0, xml) :
            c \in Credentials, xml \in KdbxOddDocuments}
    \cup {KdbxWritten(c, flags, rounds, XmlDocument(<<>>, 1, 1, <<>>,
                                            XmlGroup(1, 1, 0, 0, <<>>, <<>>))) :
            c \in Credentials, flags \in {kCount}, rounds \in {0}}
    \cup {KdbxWritten(c, kNone, CounterMod, XmlDocument(<<>>, 1, 1, <<>>,
                                                XmlGroup(1, 1, 0, 0, <<>>, <<>>))) :
            c \in Credentials}

\* The ways a KDBX file can be off.
KdbxDefects(f) ==
    {[f EXCEPT !.complete = FALSE],
     [f EXCEPT !.signature = FALSE],
     [f EXCEPT !.header.version = 262144],
     [f EXCEPT !.header.version = kKdbxVersionCriticalMin + 1],
     [f EXCEPT !.header.version = kKdbxVersionCriticalMin - 1],
     [f EXCEPT !.header.fields = "truncated"],
     [f EXCEPT !.header.fields = "illegal"],
     [f EXCEPT !.header.compression_flags = kCount + 1],
     [f EXCEPT !.header.start_bytes = 2],
     [f EXCEPT !.content.damaged = TRUE],
     [f EXCEPT !.content.plain.blocks_intact = FALSE],
     [f EXCEPT !.content.plain.gzip = TRUE],
     [f EXCEPT !.content.plain.xml.header_hash = kEmptyHash],
     [f EXCEPT !.content.plain.xml.header_hash = HeaderHash([f.header EXCEPT
                                                     !.start_bytes = 2])],
     [f EXCEPT !.content.plain.xml.header_hash_size = 0],
     [f EXCEPT !.content.plain.xml.header_hash_size = kHashSize - 1],
     [f EXCEPT !.content.plain.xml.header_hash_size = kHashSize + 1]}

KdbxDefectFiles ==
    UNION {KdbxDefects(KdbxWritten(c, kNone, 0,
                                   XmlDocument(<<>>, 1, 1, <<>>,
                                               XmlGroup(1, 1, 0, 0, <<>>, <<>>)))) :
              c \in Credentials}

CodecFiles ==
    KdbSmallFiles \cup KdbDefectFiles \cup KdbxSmallFiles \cup KdbxDefectFiles
    \cup {NoFile}

\* A scenario: a file at "src" and a Key.
\* Databases a program builds with the classes of the library: a root
\* group with an entry and a subgroup with an entry, and a protected
\* binary in the Metadata.  The first entry has a password that is
\* protected, protected and empty, or not protected; may have a protected
\* custom field; may have an attachment, whose Binary is the one of the
\* Metadata or one that only the attachment holds; and may have an older
\* version of itself in its history.
BuiltDatabases ==
    LET pooled == NewBinary(1, Protect(<<200, 7>>, TRUE))
    IN  {[NewDatabase(
             [NewGroup(1) EXCEPT
                 !.entries =
                     <<[NewEntry(2) EXCEPT
                           !.title = 1,
                           !.password = password,
                           !.custom_fields = custom_fields,
                           !.attachments = attachments,
                           !.history = history]>>,
                 !.groups =
                     <<[NewGroup(3) EXCEPT
                           !.entries =
                               <<[NewEntry(4) EXCEPT
                                     !.password = Protect(<<3>>, TRUE)]>>]>>])
          EXCEPT !.meta.binaries = <<pooled>>] :
            password \in {Protect(<<1, 2>>, TRUE), Protect(<<>>, TRUE),
                          Protect(<<1, 2>>, FALSE)},
            custom_fields \in {<<>>, <<[key |-> "pin",
                                        value |-> Protect(<<9>>, TRUE)]>>},
            attachments \in
                {<<>>, <<NewAttachment(1, pooled)>>,
                 <<NewAttachment(1, NewBinary(0, Protect(<<5>>, TRUE)))>>,
                 <<NewAttachment(1, NewBinary(0, Protect(<<5>>, FALSE)))>>},
            history \in
                {<<>>, <<[NewEntry(0) EXCEPT
                             !.uuid = 2,
                             !.password = Protect(<<4>>, TRUE)]>>}}

InitCodec ==
    /\ CbcIdle /\ HashedIdle /\ RefsIdle /\ PureIdle
    /\ key_error = "none"
    /\ transform = TransformIdle
    /\ db2 = NoDatabase /\ call = NoCall
    /\ kdbx_file = NewKdbxFile
    /\ assertions \in BOOLEAN
    /\ \/ /\ password_key_ = Sha256(<<1>>) /\ keyfile_key_ = kEmptyKey
          /\ ~assertions
          /\ db = NoDatabase /\ heap = 0
          /\ \E f \in KdbTreeFiles :
                file = [p \in Paths |-> IF p = "src" THEN f ELSE NoFile]
       \/ \E c \in Credentials, f \in CodecFiles :
             /\ password_key_ = c.pw /\ keyfile_key_ = c.kf
             /\ db = NoDatabase /\ heap = 0
             /\ file = [p \in Paths |-> IF p = "src" THEN f ELSE NoFile]
       \/ /\ password_key_ = Sha256(<<1>>) /\ keyfile_key_ = kEmptyKey
          /\ ~assertions
          /\ db \in BuiltDatabases /\ heap = 4   \* its groups and entries
          /\ file = [p \in Paths |-> NoFile]

NextCodec ==
    \/ \E path \in Paths : KdbImportBegin(path)
    \/ TransformStep
    \/ \E ub \in UbOutcomes : KdbImportEnd(ub)
    \/ KdbExportBegin
    \/ KdbExportEnd
    \/ \E path \in Paths : KdbxImportBegin(path)
    \/ KdbxImportEnd
    \/ KdbxExportBegin
    \/ \E content_start_bytes \in StartByteValues : KdbxExportEnd(content_start_bytes)

SpecCodec == InitCodec /\ [][NextCodec]_vars

\* A call that can take a step takes it: Import and Export run on.
SpecCodecFair == SpecCodec /\ WF_vars(NextCodec)

\* An object of each class, owned and referred to in every order.
InitRefs == KeyIdle /\ CbcIdle /\ HashedIdle /\ CodecIdle /\ RefsIdle /\ PureIdle

NextRefs ==
    \/ \E kind \in {"Icon", "Entry", "Group"} : MakeShared(kind)
    \/ \E owner \in Owners(refs.kind) : AddOwner(owner)
    \/ \E member \in BackReferences : SetBackReference(member)
    \/ \E owner \in Owners(refs.kind) : DropOwner(owner)

SpecRefs == InitRefs /\ [][NextRefs]_vars

----------------------------------------------------------------------------
(* Groups and entries compared (operator==) and printed (ToJson).          *)

\* Longest child vector of an operand.
MaxChildren == 2

\* The vectors of at most n elements of `elements`.
RECURSIVE VectorsUpTo(_, _)
VectorsUpTo(elements, n) ==
    IF n = 0 THEN {<<>>}
    ELSE LET shorter == VectorsUpTo(elements, n - 1)
         IN  shorter \cup {Append(v, x) : v \in shorter, x \in elements}

\* The entry KeePass 1.x keeps its own data in.
MetaInfoEntry(addr) ==
    [NewEntry(addr) EXCEPT !.title = kMetaInfo, !.url = kDollar,
        !.username = kSystem, !.notes = 1,
        !.attachments = <<NewAttachment(kBinStream,
                                        NewBinary(0, Protect(<<1>>, FALSE)))>>]

\* Entries that differ in what they hold: attachments, history entries,
\* custom fields, and the strings IsMetaEntry looks at.
ComparedEntries ==
    {[scalars EXCEPT !.attachments = attachments_, !.history = history_,
                     !.custom_fields = custom_fields_] :
        scalars \in {[NewEntry(1) EXCEPT !.title = 1],
                     [MetaInfoEntry(1) EXCEPT !.attachments = <<>>]},
        attachments_ \in VectorsUpTo(
            {NewAttachment(1, NewBinary(0, Protect(<<1>>, FALSE))),
             NewAttachment(kBinStream, NewBinary(0, Protect(<<1>>, FALSE)))},
            MaxChildren),
        history_ \in {<<>>, <<[NewEntry(2) EXCEPT !.title = 1]>>},
        custom_fields_ \in {<<>>, <<[key |-> "pin",
                                      value |-> Protect(<<1>>, FALSE)]>>}}

\* Groups that differ in their child groups and entries.
ComparedGroups ==
    {[NewGroup(1) EXCEPT !.groups = groups_, !.entries = entries_] :
        groups_ \in VectorsUpTo(
            {NewGroup(2),
             [NewGroup(3) EXCEPT !.entries = <<MetaInfoEntry(4)>>]},
            MaxChildren),
        entries_ \in VectorsUpTo(
            {[NewEntry(5) EXCEPT !.title = 1], MetaInfoEntry(6)},
            MaxChildren)}

\* a == b for two groups
GroupOperatorEquals(past_end) ==
    /\ operands.kind = "Group"
    /\ operands.equal = "unknown"
    /\ operands' = [operands EXCEPT
            !.equal = GroupEquals(operands.a, operands.b, past_end)]
    /\ UNCHANGED <<keyVars, cbcVars, hashedVars, codecVars, refsVars, base64, obfuscation, kdb_time, read_entry>>

\* a == b for two entries
EntryOperatorEquals(past_end) ==
    /\ operands.kind = "Entry"
    /\ operands.equal = "unknown"
    /\ operands' = [operands EXCEPT
            !.equal = EntryEquals(operands.a, operands.b, past_end)]
    /\ UNCHANGED <<keyVars, cbcVars, hashedVars, codecVars, refsVars, base64, obfuscation, kdb_time, read_entry>>

\* a.ToJson() and b.ToJson() for two groups
GroupPrint ==
    /\ operands.kind = "Group"
    /\ operands.equal # "crash"
    /\ operands.json = <<>>
    /\ operands' = [operands EXCEPT
            !.json = <<GroupToJson(operands.a), GroupToJson(operands.b)>>]
    /\ UNCHANGED <<keyVars, cbcVars, hashedVars, codecVars, refsVars, base64, obfuscation, kdb_time, read_entry>>

\* Two groups or two entries, not yet compared.
InitValues ==
    /\ KeyIdle /\ CbcIdle /\ HashedIdle /\ CodecIdle /\ RefsIdle
    /\ base64 = NoConversion /\ obfuscation = NoObfuscation
    /\ kdb_time = NoTime
    /\ read_entry = NoEntry
    /\ \/ \E a \in ComparedGroups, b \in ComparedGroups :
            operands = [kind |-> "Group", a |-> a, b |-> b,
                        equal |-> "unknown", json |-> <<>>]
       \/ \E a \in ComparedEntries, b \in ComparedEntries :
            operands = [kind |-> "Entry", a |-> a, b |-> b,
                        equal |-> "unknown", json |-> <<>>]

NextValues ==
    \/ \E past_end \in PastEndOutcomes : GroupOperatorEquals(past_end)
    \/ \E past_end \in PastEndOutcomes : EntryOperatorEquals(past_end)
    \/ GroupPrint

SpecValues == InitValues /\ [][NextValues]_vars

----------------------------------------------------------------------------
(* Byte strings and texts taken through base64.                            *)

\* Longest byte string encoded.
MaxBytes == 4

\* Byte values: low, high, and around the sign bit of a char.
ByteValues == {0, 1, 97, 127, 128, 255}

\* The strings of at most n elements of ByteValues.
ByteStrings == VectorsUpTo(ByteValues, MaxBytes)

\* Characters of the texts decoded: 'A', 'B', 'Q', 'w', '/', '='.
TextChars == {65, 66, 81, 119, 47, kPad}

\* Four characters that are canonical base64: padding only at the end, and
\* the bits that no byte takes are zero.
CanonicalQuartets ==
    {q \in [1..4 -> TextChars] :
        /\ q[1] # kPad /\ q[2] # kPad
        /\ q[3] = kPad => q[4] = kPad /\ Base64Find(q[2]) % 16 = 0
        /\ (q[3] # kPad /\ q[4] = kPad) => Base64Find(q[3]) % 4 = 0}

\* Canonical base64 strings of up to two quartets.
CanonicalTexts ==
    {<<>>} \cup CanonicalQuartets
        \cup {<<81, 119, 47, 66>> \o q : q \in CanonicalQuartets}

\* The call of base64_encode: of the bytes given, or of what base64_decode
\* returned.
Base64Encode(wild) ==
    /\ \/ base64.first = "encode" /\ base64.done = 0
       \/ base64.first = "decode" /\ base64.done = 1 /\ base64.error = "none"
    /\ LET src == IF base64.done = 0 THEN base64.input ELSE base64.between
           dst == IF base64.library = "base64.hh"
                  THEN [error |-> "none", value |-> base64_encode(src)]
                  ELSE base64_cc_encode(src, base64.char_signed, wild)
       IN  base64' = IF base64.done = 0
                     THEN [base64 EXCEPT !.done = 1, !.error = dst.error,
                                         !.between = dst.value]
                     ELSE [base64 EXCEPT !.done = 2, !.error = dst.error,
                                         !.output = dst.value]
    /\ UNCHANGED <<keyVars, cbcVars, hashedVars, codecVars, refsVars, operands, obfuscation, kdb_time, read_entry>>

\* The call of base64_decode: of the text given, or of what base64_encode
\* returned.
Base64Decode ==
    /\ \/ base64.first = "decode" /\ base64.done = 0
       \/ base64.first = "encode" /\ base64.done = 1 /\ base64.error = "none"
    /\ LET src == IF base64.done = 0 THEN base64.input ELSE base64.between
           dst == IF base64.library = "base64.hh"
                  THEN base64_decode(src) ELSE base64_cc_decode(src)
       IN  base64' = IF base64.done = 0
                     THEN [base64 EXCEPT !.done = 1, !.error = dst.error,
                                         !.between = dst.value]
                     ELSE [base64 EXCEPT !.done = 2, !.error = dst.error,
                                         !.output = dst.value]
    /\ UNCHANGED <<keyVars, cbcVars, hashedVars, codecVars, refsVars, operands, obfuscation, kdb_time, read_entry>>

\* A byte string to encode and decode again, or a canonical text to decode
\* and encode again, with the functions of base64.hh or of base64.cc, in a
\* build where char is signed or not.
InitBase64 ==
    /\ KeyIdle /\ CbcIdle /\ HashedIdle /\ CodecIdle /\ RefsIdle
    /\ operands = NoOperands /\ obfuscation = NoObfuscation
    /\ kdb_time = NoTime
    /\ read_entry = NoEntry
    /\ \E library \in {"base64.hh", "base64.cc"}, char_signed \in BOOLEAN :
          \/ \E b \in ByteStrings :
                base64 = [first |-> "encode", library |-> library,
                          char_signed |-> char_signed, input |-> b, done |-> 0,
                          error |-> "none", between |-> <<>>, output |-> <<>>]
          \/ \E text \in CanonicalTexts :
                base64 = [first |-> "decode", library |-> library,
                          char_signed |-> char_signed, input |-> text,
                          done |-> 0, error |-> "none", between |-> <<>>,
                          output |-> <<>>]

NextBase64 ==
    \/ \E wild \in WildReads : Base64Encode(wild)
    \/ Base64Decode

SpecBase64 == InitBase64 /\ [][NextBase64]_vars

----------------------------------------------------------------------------
(* Claims about the KDB codec.                                             *)

\* The last group among the first k with the given level, or 0.
RECURSIVE LastAtLevel(_, _, _)
LastAtLevel(levels, k, level) ==
    IF k = 0 THEN 0
    ELSE IF levels[k] = level THEN k
    ELSE LastAtLevel(levels, k - 1, level)

\* The parent of every group when each group of level L hangs under the
\* most recently read group of level L-1, and under the root when L = 0.
ExpectedParents(levels) ==
    [k \in 1..Len(levels) |->
        IF levels[k] = 0 THEN 0 ELSE LastAtLevel(levels, k - 1, levels[k] - 1)]

\* No level exceeds its predecessor by more than 1 (the first: level 0).
StepsByOne(levels) ==
    \A k \in 1..Len(levels) :
        levels[k] <= (IF k = 1 THEN 0 ELSE levels[k - 1] + 1)

\* The first Import of a scenario has ended, on a KDB file whose content
\* was decrypted under the right key and holds well-formed records.
KdbTreeBuilt ==
    /\ call.op = "KdbImport" /\ call.path = "src" /\ call.pc = "idle"
    /\ call.decoded
    /\ KdbRead(file["src"].content.plain, file["src"].num_groups,
               file["src"].num_entries) = "none"
    /\ ~HasOrphan(file["src"].content.plain)

\* C4: KDB Import attaches each group read at level L to the most recently
\* read group of level L-1 (to the root when L = 0) for every sequence of
\* levels that never rises by more than 1, back-jumps included, and raises
\* Format when a level rises by more than 1.  (Levels below 65535; the
\* largest level is the subject of C29.)
C4_KdbTreeParents ==
    KdbTreeBuilt =>
        LET plain == file["src"].content.plain
            levels == [k \in 1..Len(plain.groups) |-> plain.groups[k].level]
        IN  (\A k \in 1..Len(levels) : levels[k] < LevelMod - 1) =>
                IF StepsByOne(levels)
                THEN /\ call.error = "none"
                     /\ db.root = KdbRoot(plain, ExpectedParents(levels), 0)
                ELSE call.error = "Format"

\* C1: KDB round trip.  When Import of a valid KDB file returned db, and
\* Export of db followed by Import under the same key has ended, that
\* second Import returned a database whose JSON serialization is the one
\* of db: every group kept its parent, its position and its entries.
C1_KdbRoundTrip ==
    (call.op = "KdbImport" /\ call.path = "dst" /\ call.pc = "idle") =>
        /\ call.error = "none"
        /\ db2.present
        /\ GroupToJson(db2.root) = GroupToJson(db.root)

----------------------------------------------------------------------------
(* Claims about both codecs.                                               *)

\* C2: KDBX round trip.  When Import of a valid KDBX file returned db, and
\* Export of db followed by Import under the same key has ended, that
\* second Import returned a database whose root has the JSON of db's root
\* and equals it under Group/Entry equality, with and without gzip and for
\* each kind of key.
C2_KdbxRoundTrip ==
    (call.op = "KdbxImport" /\ call.path = "dst" /\ call.pc = "idle") =>
        /\ call.error = "none"
        /\ db2.present
        /\ GroupToJson(db2.root) = GroupToJson(db.root)
        /\ \A past_end \in PastEndOutcomes :
              GroupEquals(db.root, db2.root, past_end) = "true"

\* The outer header of the file is well formed: Import gets as far as
\* decrypting the content.
WellFormedHeader(f) ==
    \/ f.kind = "kdb" /\ KdbOpen(f) = "none" /\ KdbCipher(f.flags) # "none"
    \/ f.kind = "kdbx" /\ KdbxOpen(f) = "none"

\* The final key of the Key for the file f.
FinalKeyFor(f) ==
    IF f.kind = "kdb"
    THEN FinalKey(f.master_seed,
                  Transformed(Resolve(password_key_, keyfile_key_,
                                      kHashSubKeysOnlyIfCompositeKey),
                              f.transform_seed, f.transform_rounds))
    ELSE FinalKey(f.header.master_seed,
                  Transformed(Resolve(password_key_, keyfile_key_, kHashSubKeys),
                              f.header.transform_seed, f.header.transform_rounds))

\* The first Import of the scenario is that of a file with a well-formed
\* header, by the codec of its format, under a key whose final key is not
\* the one the content was encrypted with.
WrongKeyImport ==
    /\ call.path = "src"
    /\ \/ call.op = "KdbImport" /\ file["src"].kind = "kdb"
       \/ call.op = "KdbxImport" /\ file["src"].kind = "kdbx"
    /\ WellFormedHeader(file["src"])
    /\ ~file["src"].content.damaged
    /\ FinalKeyFor(file["src"]) # file["src"].content.final_key

\* C3: Import of a file with a well-formed header under a wrong key fails
\* with PasswordError, before anything of the content is decoded: once the
\* call has started it ends, with that error and nothing decoded.
C3_WrongKeyIsBadPassword ==
    (WrongKeyImport /\ call.pc = "transform")
        ~> (call.pc = "idle" /\ call.error = "Password" /\ ~call.decoded)

\* The part of C3 that holds: a wrong-key Import that has ended has thrown
\* PasswordError and has decoded nothing.
WrongKeyEndsWithPassword ==
    (WrongKeyImport /\ call.pc = "idle") =>
        call.error = "Password" /\ ~call.decoded

\* C5: every failure of KdbFile::Import or KdbxFile::Import reaches the
\* caller as FileNotFound, Format, BadPassword or IO.
C5_ImportErrorKinds ==
    (call.op \in {"KdbImport", "KdbxImport"} /\ call.pc = "idle") =>
        call.error \in {"none", "FileNotFound", "Format", "Password", "Io"}

\* The first Import of the scenario is KdbxFile::Import of a KDBX file, it
\* has ended, and it had read the header fields up to CompressionFlags.
KdbxFlagsRead ==
    /\ call.op = "KdbxImport" /\ call.path = "src" /\ call.pc = "idle"
    /\ file["src"].kind = "kdbx"
    /\ file["src"].complete /\ file["src"].signature
    /\ VersionCritical(file["src"].header.version)
           <= VersionCritical(kKdbxVersionCriticalMin)
    /\ file["src"].header.fields = "ok"

\* C11: KDBX Import treats CompressionFlags 0 as no compression and 1 as
\* gzip, and raises Format for every CompressionFlags value of 2 or more.
C11_CompressionFlags ==
    KdbxFlagsRead =>
        LET comp_flags == file["src"].header.compression_flags
        IN  /\ comp_flags >= 2 => call.error = "Format"
            /\ (comp_flags < 2 /\ call.error = "none") =>
                   /\ db.compress = (comp_flags = 1)
                   /\ file["src"].content.plain.gzip = (comp_flags = 1)

\* The step in which KdbFile::Import reads the header of a KDB file whose
\* signatures are right.
KdbHeaderRead ==
    /\ call.op = "none" /\ call'.op = "KdbImport"
    /\ file["src"].kind = "kdb"
    /\ file["src"].complete /\ file["src"].signature

\* C12 as stated: KdbFile::Import passes the version check (goes on to
\* Key::Transform) exactly when the top 16 bits of the version word equal
\* 0x0003, whatever its low 16 bits, and raises Format otherwise.
C12_KdbVersionTop16 ==
    [][KdbHeaderRead =>
          /\ (call'.pc = "transform") <=> (file["src"].version \div 65536 = 3)
          /\ call'.pc = "idle" => call'.error = "Format"]_vars

\* C12 as amended: KdbFile::Import passes the version check exactly when
\* the top 24 bits of the version word equal 0x000300, whatever its low 8
\* bits, and raises Format otherwise.
C12_KdbVersionTop24 ==
    [][KdbHeaderRead =>
          /\ (call'.pc = "transform")
                 <=> (file["src"].version - (file["src"].version % 256) = kKdbVersion3)
          /\ call'.pc = "idle" => call'.error = "Format"]_vars

\* Import has refused a version word whose top 16 bits are 0x0003 and whose
\* second byte is not 0.
C12_Witness ==
    /\ call.op = "KdbImport" /\ call.path = "src" /\ call.pc = "idle"
    /\ file["src"].kind = "kdb"
    /\ file["src"].complete /\ file["src"].signature
    /\ file["src"].version = kKdbVersion3 + 256
    /\ call.error = "Format"

\* KdbxFile::Import has ended after decrypting the content under the right
\* key and reading a document that is in order but for Meta/HeaderHash.
KdbxDocumentRead ==
    /\ call.op = "KdbxImport" /\ call.pc = "idle" /\ call.decoded
    /\ LET plain == file[call.path].content.plain
       IN  /\ plain.blocks_intact
           /\ plain.gzip = (file[call.path].header.compression_flags = kGzip)
           /\ XmlError([plain.xml EXCEPT !.header_hash_size = kHashSize],
                       assertions, NewKdbxFile) = "none"

\* Meta/HeaderHash of the document is SHA-256 of the header of its file.
HeaderHashRight(f) ==
    /\ f.content.plain.xml.header_hash_size = kHashSize
    /\ f.content.plain.xml.header_hash = Sha256(<<f.header>>)

\* C13: KDBX Import returns a Database only if Meta/HeaderHash equals
\* SHA-256 of the file from offset 0 through EndOfHeader, and raises Format
\* otherwise (also when HeaderHash is absent); the file KDBX Export writes
\* carries the SHA-256 of its own header and passes this check.
C13_HeaderHashChecked ==
    /\ (call.op = "KdbxImport" /\ call.pc = "idle" /\ call.error = "none")
           => HeaderHashRight(file[call.path])
    /\ (KdbxDocumentRead /\ ~HeaderHashRight(file[call.path]))
           => call.error = "Format"
    /\ file["dst"].kind = "kdbx" => HeaderHashRight(file["dst"])
    /\ (call.op = "KdbxImport" /\ call.path = "dst" /\ call.pc = "idle")
           => call.error = "none"

\* The part of C13 that holds: the same, for a HeaderHash whose text
\* decodes to no more than 32 bytes.
HeaderHashCheckedUpTo32 ==
    (call.op = "KdbxImport" /\ file[call.path].kind = "kdbx"
     /\ file[call.path].content.plain.xml.header_hash_size <= kHashSize)
        => C13_HeaderHashChecked

\* The groups reachable from a root, the root first.
RECURSIVE GroupsUnder(_)
RECURSIVE GroupsUnderAll(_, _)
GroupsUnder(group) == <<group>> \o GroupsUnderAll(group.groups, Len(group.groups))
GroupsUnderAll(groups, n) ==
    IF n = 0 THEN <<>> ELSE GroupsUnderAll(groups, n - 1) \o GroupsUnder(groups[n])

\* Each of the four references of the Metadata whose element of the
\* document names a group under Root is that group of the tree.
MetaDesignates(doc, database) ==
    LET groups == GroupsUnder(database.root)
        Named(uuid) == {j \in 1..Len(groups) : uuid # 0 /\ groups[j].uuid = uuid}
    IN  /\ Named(doc.recycle_bin_uuid) # {} =>
               \E j \in Named(doc.recycle_bin_uuid) :
                   database.meta.recycle_bin = groups[j]
        /\ Named(doc.entry_templates_group) # {} =>
               \E j \in Named(doc.entry_templates_group) :
                   database.meta.entry_templates = groups[j]
        /\ Named(doc.last_selected_group) # {} =>
               \E j \in Named(doc.last_selected_group) :
                   database.meta.last_selected_group = groups[j].addr
        /\ Named(doc.last_top_visible_group) # {} =>
               \E j \in Named(doc.last_top_visible_group) :
                   database.meta.last_visible_group = groups[j].addr

\* C14: after KDBX Import, whenever RecycleBinUUID, EntryTemplatesGroup,
\* LastSelectedGroup or LastTopVisibleGroup carries the UUID of a group
\* under Root, the reference of the Metadata designates the group object
\* of that UUID that is reachable from the root of the Database, with its
\* name, entries and children.
C14_MetaGroupReferences ==
    (call.op = "KdbxImport" /\ call.pc = "idle" /\ call.error = "none") =>
        MetaDesignates(file[call.path].content.plain.xml,
                       IF call.path = "src" THEN db ELSE db2)

----------------------------------------------------------------------------
(* Claims about ownership.                                                 *)

\* C15: none of the back-references custom_icon, recycle_bin,
\* entry_templates, last_selected_group, last_visible_group and
\* last_visible_entry keeps its target alive: once every owning reference
\* to the target is dropped, the target is destroyed and every
\* back-reference to it reads as empty.
C15_BackReferencesDoNotOwn ==
    (refs.kind # "none" /\ refs.owners = {}) =>
        /\ ~refs.alive
        /\ \A member \in BackReferences : Lock(refs, member) = "empty"

\* The part of C15 that holds: the back-references declared weak_ptr.
WeakBackReferencesDoNotOwn ==
    (/\ refs.kind # "none" /\ refs.owners = {}
     /\ \A member \in refs.back : MemberType(member) = "weak_ptr") =>
        /\ ~refs.alive
        /\ \A member \in BackReferences : Lock(refs, member) = "empty"

----------------------------------------------------------------------------
(* Claims about Key.                                                       *)

RECURSIVE EcbTimes(_, _, _)
EcbTimes(seed, v, n) ==
    IF n = 0 THEN v ELSE EcbTimes(seed, encrypt_ecb(seed, v), n - 1)

\* C9: Key::Transform terminates for every round count and returns SHA-256
\* of the resolved key after exactly `rounds` ECB encryptions: the loop
\* never makes more than `rounds` encryptions, and what the call returns is
\* the digest of the resolved key encrypted `rounds` times.
C9_TransformExactRounds ==
    /\ transform.n_enc <= transform.rounds
    /\ transform.pc = "done" =>
          transform.transformed_key =
              Sha256(EcbTimes(transform.seed,
                              Resolve(password_key_, keyfile_key_,
                                      transform.resolution),
                              transform.rounds))

\* C10: under kHashSubKeys the resolved key is SHA-256 of the present
\* sub-keys, password first; under kHashSubKeysOnlyIfCompositeKey it is
\* SHA-256(password || key-file) when both are present and the lone
\* sub-key itself otherwise.
C10_SubKeyResolution ==
    transform.pc = "loop" /\ transform.n_enc = 0 =>
        LET pw == password_key_
            kf == keyfile_key_
            hasPw == pw # kEmptyKey
            hasKf == kf # kEmptyKey
            got == transform.transformed_key
        IN  IF transform.resolution = kHashSubKeys
            THEN /\ hasPw /\ hasKf => got = Sha256(pw \o kf)
                 /\ hasPw /\ ~hasKf => got = Sha256(pw)
                 /\ ~hasPw /\ hasKf => got = Sha256(kf)
            ELSE /\ hasPw /\ hasKf => got = Sha256(pw \o kf)
                 /\ hasPw /\ ~hasKf => got = pw
                 /\ ~hasPw /\ hasKf => got = kf

\* C10 witness: each policy has resolved a lone key-file sub-key and a
\* password together with a key file.
C10_Witness ==
    /\ transform.pc = "loop" /\ transform.n_enc = 0
    /\ transform.resolution = kHashSubKeysOnlyIfCompositeKey
    /\ password_key_ = kEmptyKey
    /\ keyfile_key_ # kEmptyKey
    /\ transform.transformed_key = keyfile_key_


----------------------------------------------------------------------------
(* Claims about CBC.                                                       *)

\* C6: decrypt_cbc(encrypt_cbc(s)) = s under the same key and IV, for
\* every byte string s, and the ciphertext length is a multiple of the
\* block length and strictly greater than the length of s.
C6_CbcRoundTrip ==
    /\ cbc.pc \in {"encrypted", "decrypted"} =>
          /\ Len(cbc.dst) % BlockLen = 0
          /\ Len(cbc.dst) > Len(cbc.src)
    /\ cbc.pc = "decrypted" /\ cbc.dec_key = cbc.key =>
          /\ cbc.error = "none"
          /\ cbc.out = cbc.src

\* C6 witness: a string of two full blocks, the second of which looks like
\* padding, came back from three cipher blocks.
C6_Witness ==
    /\ cbc.pc = "decrypted"
    /\ cbc.dec_key = cbc.key
    /\ Len(cbc.src) = 2 * BlockLen
    /\ cbc.src[2 * BlockLen] = BlockLen
    /\ Len(cbc.dst) = 3 * BlockLen
    /\ cbc.out = cbc.src


----------------------------------------------------------------------------
(* Claims about the hashed-block stream.                                   *)

\* The data blocks of a stream: the blocks before its first terminator.
RECURSIVE DataBlocks(_)
DataBlocks(stream) ==
    IF stream = <<>> \/ Head(stream).block_size = 0 THEN <<>>
    ELSE <<Head(stream)>> \o DataBlocks(Tail(stream))

RECURSIVE Payload(_)
Payload(blocks) ==
    IF blocks = <<>> THEN <<>> ELSE Head(blocks).data \o Payload(Tail(blocks))

\* The stream was written and then flushed once, and is as written.
FlushedOnce ==
    hashed_log.syncs = 1 /\ hashed_log.flushed /\ hashed_log.altered = 0

\* C7: writing D through the hashed-block writer with block size B,
\* flushing once and reading back yields exactly D; the emitted stream is
\* data blocks of exactly B bytes except possibly the last, none of them
\* empty, followed by exactly one zero-size, zero-hash terminator.
C7_HashedRoundTrip ==
    FlushedOnce =>
        LET stream == hashed_ostreambuf.dst_
            n == Len(stream)
            B == hashed_ostreambuf.block_size_
        IN  /\ n >= 1
            /\ stream[n].block_size = 0 /\ stream[n].block_hash = kEmptyHash
            /\ \A k \in 1..(n - 1) :
                  /\ stream[k].block_size > 0
                  /\ stream[k].block_size = Len(stream[k].data)
                  /\ stream[k].block_size <= B
                  /\ k < n - 1 => stream[k].block_size = B
            /\ Payload(SubSeq(stream, 1, n - 1)) = hashed_log.written
            /\ hashed_istreambuf.state # "Io"
            /\ hashed_istreambuf.state = "eof" =>
                  hashed_istreambuf.delivered = hashed_log.written

\* C7 witness: three bytes written with block size 2 were read back to the
\* end from a full block, a short block and the terminator.
C7_Witness ==
    /\ FlushedOnce
    /\ hashed_ostreambuf.block_size_ = 2
    /\ Len(hashed_log.written) = 3
    /\ Len(hashed_ostreambuf.dst_) = 3
    /\ hashed_istreambuf.state = "eof"
    /\ hashed_istreambuf.delivered = hashed_log.written

----------------------------------------------------------------------------
(* Claims about equality and ToJson.                                       *)

\* C16: Group::operator== and Entry::operator== return true only when the
\* operands have the same number of child groups, entries, attachments,
\* custom fields and history entries: no group or entry equals one whose
\* child vector is a proper prefix or an extension of its own.
C16_EqualityComparesLengths ==
    (operands.kind # "none" /\ operands.equal = "true") =>
        IF operands.kind = "Group"
        THEN /\ Len(operands.a.groups) = Len(operands.b.groups)
             /\ Len(operands.a.entries) = Len(operands.b.entries)
        ELSE /\ Len(operands.a.attachments) = Len(operands.b.attachments)
             /\ Len(operands.a.history) = Len(operands.b.history)
             /\ Len(operands.a.custom_fields) = Len(operands.b.custom_fields)

\* The custom fields are a vector of values, compared with the vector's
\* own operator==: entries that are equal have as many custom fields.
EqualEntriesHaveAsManyCustomFields ==
    (operands.kind = "Entry" /\ operands.equal = "true") =>
        Len(operands.a.custom_fields) = Len(operands.b.custom_fields)

\* Operands with child vectors of the same lengths at every level are
\* compared without a read past the end of a vector.
RECURSIVE SameShape(_, _)
SameShape(a, b) ==
    /\ Len(a.groups) = Len(b.groups)
    /\ Len(a.entries) = Len(b.entries)
    /\ \A j \in 1..Len(a.groups) : SameShape(a.groups[j], b.groups[j])
    /\ \A j \in 1..Len(a.entries) :
          /\ Len(a.entries[j].attachments) = Len(b.entries[j].attachments)
          /\ Len(a.entries[j].history) = Len(b.entries[j].history)

SameShapeComparesByValue ==
    (operands.kind = "Group" /\ operands.equal # "unknown"
        /\ SameShape(operands.a, operands.b)) =>
        operands.equal = (IF operands.a = operands.b THEN "true" ELSE "false")

\* Whether a printed entry is a meta entry: Entry::ToJson prints all that
\* IsMetaEntry looks at.
JsonIsMetaEntry(json) ==
    /\ json.title = kMetaInfo
    /\ json.url = kDollar
    /\ json.username = kSystem
    /\ json.notes # 0
    /\ \E j \in 1..Len(json.attachment) : json.attachment[j].name = kBinStream

\* The output `json` of a group lists its non-meta entries only, has the
\* key "entries" exactly when there is one, and so at every level.
RECURSIVE MetaEntriesHidden(_, _)
MetaEntriesHidden(group, json) ==
    LET listed == {j \in 1..Len(group.entries) : ~IsMetaEntry(group.entries[j])}
    IN  /\ \A j \in 1..Len(json.entries) : ~JsonIsMetaEntry(json.entries[j])
        /\ Len(json.entries) = Cardinality(listed)
        /\ ("entries" \in json.keys) <=> (listed # {})
        /\ Len(json.groups) = Len(group.groups)
        /\ \A j \in 1..Len(group.groups) :
              MetaEntriesHidden(group.groups[j], json.groups[j])

\* The group without its meta entries, at every level.
RECURSIVE WithoutMetaEntries(_)
WithoutMetaEntries(group) ==
    [group EXCEPT
        !.entries = SelectSeq(group.entries, LAMBDA entry : ~IsMetaEntry(entry)),
        !.groups = [j \in 1..Len(group.groups) |->
                        WithoutMetaEntries(group.groups[j])]]

\* C17: Group::ToJson never lists an entry for which IsMetaEntry() holds,
\* it has the key "entries" exactly when the group has a non-meta entry,
\* and two groups that differ in their meta entries only print the same.
C17_MetaEntriesNotPrinted ==
    (operands.kind = "Group" /\ operands.json # <<>>) =>
        /\ MetaEntriesHidden(operands.a, operands.json[1])
        /\ MetaEntriesHidden(operands.b, operands.json[2])
        /\ WithoutMetaEntries(operands.a) = WithoutMetaEntries(operands.b) =>
              operands.json[1] = operands.json[2]

\* C17 witness: a group with a meta entry before a non-meta entry and a
\* child group holding only a meta entry was printed next to the same
\* group without meta entries; both outputs list the one entry.
C17_Witness ==
    /\ operands.kind = "Group"
    /\ operands.json # <<>>
    /\ Len(operands.a.entries) = 2
    /\ IsMetaEntry(operands.a.entries[1])
    /\ ~IsMetaEntry(operands.a.entries[2])
    /\ \E j \in 1..Len(operands.a.groups) :
          /\ operands.a.groups[j].entries # <<>>
          /\ ~HasNonMetaEntries(operands.a.groups[j])
          /\ "entries" \notin operands.json[1].groups[j].keys
    /\ operands.b # operands.a
    /\ "entries" \in operands.json[1].keys
    /\ Len(operands.json[1].entries) = 1
    /\ operands.json[1] = operands.json[2]

----------------------------------------------------------------------------
(* Claims about the state of a KdbxFile between calls.                     *)

\* C18: whatever calls of Import and Export were made on a KdbxFile before,
\* also calls that failed partway, the pools and the stored header hash are
\* empty when a call starts, and an Import returns (or throws) what it
\* does on a KdbxFile just constructed.
C18_CallsStartFromReset ==
    [][/\ (call.pc = "idle" /\ call'.op \in {"KdbxImport", "KdbxExport"}
              /\ call' # call /\ call'.pc = "transform") =>
            kdbx_file' = NewKdbxFile
       /\ (call.op = "KdbxImport" /\ call.pc = "transform" /\ call'.pc = "idle") =>
            \E result \in KdbxImportResult(file[call.path],
                                           transform.transformed_key,
                                           assertions, heap, NewKdbxFile) :
                /\ call'.error = result.error
                /\ kdbx_file' = result.kdbx_file
                /\ result.error = "none" =>
                      LET made == IF call.path = "src" THEN db' ELSE db2'
                      IN  made.root = result.root /\ made.meta = result.meta
       /\ (call.op = "KdbxExport" /\ call.pc = "transform" /\ call'.pc = "idle") =>
            /\ kdbx_file.binary_pool_ = <<>>
            /\ kdbx_file.icon_pool_ = <<>>
            /\ kdbx_file.group_pool_ = <<>>
            /\ kdbx_file'.header_hash_ = HeaderHash(file'["dst"].header)
      ]_vars

\* C18 witness: an Import that failed with the pools filled was repeated
\* on the same KdbxFile and ended as it did the first time.
C18_Witness ==
    /\ call.op = "KdbxImport" /\ call.pc = "idle"
    /\ call.failures = MaxRetries + 1
    /\ call.error = "Format"
    /\ call.decoded
    /\ kdbx_file.group_pool_ # <<>>
    /\ kdbx_file.header_hash_ # kEmptyHash

----------------------------------------------------------------------------
(* Claims about base64.                                                    *)

\* C19: for every byte string b, base64_decode(base64_encode(b)) is b, and
\* for every canonical base64 string s, base64_encode(base64_decode(s)) is
\* s.
C19_Base64RoundTrips ==
    (base64.first # "none" /\ (base64.done = 2 \/ base64.error # "none")) =>
        /\ base64.error = "none"
        /\ base64.output = base64.input

\* With the functions of base64.hh, and with those of base64.cc where char
\* is unsigned, both round trips give the input back.
Base64RoundTripsUnsigned ==
    (/\ base64.first # "none"
     /\ base64.library = "base64.hh" \/ ~base64.char_signed
     /\ base64.done = 2 \/ base64.error # "none") =>
        /\ base64.error = "none"
        /\ base64.output = base64.input

\* The functions of base64.cc lose a byte string only when one of its
\* trailing one or two bytes is 128 or more.
Base64CcLosesHighTrailingBytes ==
    (/\ base64.first = "encode"
     /\ base64.done = 2 \/ base64.error # "none"
     /\ base64.error # "none" \/ base64.output # base64.input) =>
        LET b == base64.input
        IN  \E k \in (Len(b) - (Len(b) % 3) + 1)..Len(b) : b[k] >= 128

----------------------------------------------------------------------------
(* Claims about the obfuscator of protected values.                        *)

\* The protect<> values of an entry in the order of the document: the
\* password, the custom fields, the attachments, then its history.
RECURSIVE EntryProtects(_)
EntryProtects(entry) ==
    <<entry.password>>
    \o [j \in 1..Len(entry.custom_fields) |-> entry.custom_fields[j].value]
    \o [j \in 1..Len(entry.attachments) |-> entry.attachments[j].binary.data]
    \o Flatten([j \in 1..Len(entry.history) |-> EntryProtects(entry.history[j])])

\* The strings among them.
RECURSIVE EntryProtectedStrings(_)
EntryProtectedStrings(entry) ==
    <<entry.password>>
    \o [j \in 1..Len(entry.custom_fields) |-> entry.custom_fields[j].value]
    \o Flatten([j \in 1..Len(entry.history) |->
                   EntryProtectedStrings(entry.history[j])])

RECURSIVE GroupProtects(_)
GroupProtects(group) ==
    Flatten([j \in 1..Len(group.entries) |-> EntryProtects(group.entries[j])])
    \o Flatten([j \in 1..Len(group.groups) |-> GroupProtects(group.groups[j])])

RECURSIVE GroupProtectedStrings(_)
GroupProtectedStrings(group) ==
    Flatten([j \in 1..Len(group.entries) |->
                EntryProtectedStrings(group.entries[j])])
    \o Flatten([j \in 1..Len(group.groups) |->
                   GroupProtectedStrings(group.groups[j])])

\* Of a list of protect<> values the protected ones, each at its place.
ProtectedOnly(values) ==
    [j \in 1..Len(values) |->
        IF values[j].protected THEN values[j] ELSE [protected |-> FALSE]]

\* The protected strings and binaries of a Database.
ProtectedValues(database) ==
    ProtectedOnly([j \in 1..Len(database.meta.binaries) |->
                      database.meta.binaries[j].data]
                  \o GroupProtects(database.root))

\* A Database built by the program was exported and the file Export wrote
\* was imported without an error.
BuiltRoundTrip ==
    /\ call.op = "KdbxImport" /\ call.path = "dst"
    /\ call.pc = "idle" /\ call.error = "none"
    /\ db.present /\ db2.present
    /\ db.meta.binaries # <<>>

\* C20: Import makes the same sequence of Process calls on the obfuscator
\* as Export made when it wrote the document, and every protected string
\* and protected binary is restored with the same bytes and the same
\* protected flag.
C20_ObfuscatorCallsAgree ==
    BuiltRoundTrip =>
        /\ ParseXmlCalls(file["dst"].content.plain.xml) = WriteXmlCalls(db)
        /\ ProtectedValues(db2) = ProtectedValues(db)

\* The calls that take bytes of the keystream are the same on both sides,
\* so every value Import passes to Process meets the bytes of the keystream
\* Export used for it.
KeystreamOffsetsAgree ==
    BuiltRoundTrip =>
        SelectSeq(ParseXmlCalls(file["dst"].content.plain.xml),
                  LAMBDA n : n > 0)
        = SelectSeq(WriteXmlCalls(db), LAMBDA n : n > 0)

\* The binaries of the Metadata and the passwords and custom fields of the
\* entries, their histories included, are restored: value and flag.
ProtectedStringsRestored ==
    BuiltRoundTrip =>
        /\ db2.meta.binaries = db.meta.binaries
        /\ GroupProtectedStrings(db2.root) = GroupProtectedStrings(db.root)

\* An attachment whose Binary is one of the Metadata is restored.
PooledAttachmentsRestored ==
    (/\ BuiltRoundTrip
     /\ \A j \in 1..Len(db.root.entries[1].attachments) :
           db.root.entries[1].attachments[j].binary.addr # 0)
    => ProtectedValues(db2) = ProtectedValues(db)

----------------------------------------------------------------------------
(* RandomObfuscator instances made with one key.  `first` is given        *)
(* pieces, `twin` the same pieces, `second` what `first` returned, and     *)
(* `whole` all the pieces as one string.                                   *)

MaxPieces == 3
MaxPiece == 4

\* The keys of the obfuscators.
ObfuscatorKeys == 1..2

\* The byte strings passed to Process: one of every length, the empty one
\* and those longer than buffer_ among them.
Pieces == {[j \in 1..n |-> 200 + n + j] : n \in 0..MaxPiece}

\* first.Process(piece)
ObfuscatorProcess(piece) ==
    /\ obfuscation.key # 0
    /\ ~obfuscation.whole_done
    /\ Len(obfuscation.pieces) < MaxPieces
    /\ obfuscation' =
           [obfuscation EXCEPT
               !.first = Processed(piece, @),
               !.pieces = Append(@, piece),
               !.outputs = Append(@, Process(piece, obfuscation.first))]
    /\ UNCHANGED <<keyVars, cbcVars, hashedVars, codecVars, refsVars,
                   operands, base64, kdb_time, read_entry>>

\* twin.Process of the next piece `first` was given.
TwinProcess ==
    /\ obfuscation.key # 0
    /\ Len(obfuscation.twin_outputs) < Len(obfuscation.pieces)
    /\ LET piece == obfuscation.pieces[Len(obfuscation.twin_outputs) + 1]
       IN  obfuscation' =
               [obfuscation EXCEPT
                   !.twin = Processed(piece, @),
                   !.twin_outputs = Append(@, Process(piece, obfuscation.twin))]
    /\ UNCHANGED <<keyVars, cbcVars, hashedVars, codecVars, refsVars,
                   operands, base64, kdb_time, read_entry>>

\* second.Process of the next string `first` returned.
SecondProcess ==
    /\ obfuscation.key # 0
    /\ Len(obfuscation.decoded) < Len(obfuscation.outputs)
    /\ LET output == obfuscation.outputs[Len(obfuscation.decoded) + 1]
       IN  obfuscation' =
               [obfuscation EXCEPT
                   !.second = Processed(output, @),
                   !.decoded = Append(@, Process(output, obfuscation.second))]
    /\ UNCHANGED <<keyVars, cbcVars, hashedVars, codecVars, refsVars,
                   operands, base64, kdb_time, read_entry>>

\* whole.Process of the pieces `first` was given, as one string.
WholeProcess ==
    /\ obfuscation.key # 0
    /\ ~obfuscation.whole_done
    /\ obfuscation' =
           [obfuscation EXCEPT
               !.whole = Processed(Flatten(obfuscation.pieces), @),
               !.whole_done = TRUE,
               !.whole_output = Process(Flatten(obfuscation.pieces),
                                        obfuscation.whole)]
    /\ UNCHANGED <<keyVars, cbcVars, hashedVars, codecVars, refsVars,
                   operands, base64, kdb_time, read_entry>>

InitObfuscation ==
    /\ KeyIdle /\ CbcIdle /\ HashedIdle /\ CodecIdle /\ RefsIdle
    /\ operands = NoOperands /\ base64 = NoConversion /\ kdb_time = NoTime
    /\ read_entry = NoEntry
    /\ \E key \in ObfuscatorKeys :
          obfuscation =
              [key |-> key,
               first |-> RandomObfuscator(key), twin |-> RandomObfuscator(key),
               second |-> RandomObfuscator(key), whole |-> RandomObfuscator(key),
               pieces |-> <<>>, outputs |-> <<>>, twin_outputs |-> <<>>,
               decoded |-> <<>>, whole_done |-> FALSE, whole_output |-> <<>>]

NextObfuscation ==
    \/ \E piece \in Pieces : ObfuscatorProcess(piece)
    \/ TwinProcess
    \/ SecondProcess
    \/ WholeProcess

SpecObfuscation == InitObfuscation /\ [][NextObfuscation]_vars

----------------------------------------------------------------------------
(* Claims about RandomObfuscator.                                          *)

Consumed(obfuscator) ==
    (obfuscator.cipher_.input_8 + CounterMod * obfuscator.cipher_.input_9)
    * BufferLen
    - (BufferLen - obfuscator.buffer_pos_)

\* C26: a RandomObfuscator uses one byte of the keystream for every byte
\* it is given and none for an empty string: the pieces of a string, given
\* in order to one instance, come out as the whole string given in one call
\* to another instance of the same key, also when a piece goes across the
\* end of a block of the keystream.
C26_OneKeystreamBytePerByte ==
    obfuscation.key # 0 =>
        LET data == Flatten(obfuscation.pieces)
            obfuscated == Flatten(obfuscation.outputs)
        IN  /\ Consumed(obfuscation.first) = Len(data)
            /\ \A k \in 1..Len(data) :
                  obfuscated[k]
                  = BitXor(data[k], Keystream(obfuscation.key, k), 8)
            /\ obfuscation.whole_done => obfuscation.whole_output = obfuscated

\* C26 witness: a piece that ends inside a block, an empty piece and a
\* piece that goes across the end of a block, then the whole in one call.
C26_Witness ==
    /\ obfuscation.key # 0
    /\ obfuscation.whole_done
    /\ Len(obfuscation.pieces) = 3
    /\ Len(obfuscation.pieces[1]) = BufferLen - 1
    /\ obfuscation.pieces[2] = <<>>
    /\ Len(obfuscation.pieces[3]) = BufferLen + 1
    /\ Len(obfuscation.whole_output) = 2 * BufferLen
    /\ obfuscation.whole.buffer_pos_ = obfuscation.first.buffer_pos_

----------------------------------------------------------------------------
(* KDB packed times (src/src/kdb.cc, struct KdbTime).  A std::time_t is    *)
(* held as the days since the epoch and the second of the day; the local   *)
(* time zone is a fixed offset from UTC.                                   *)

\* A std::time_t of `secs` seconds after the start of day `days`.
TimeT(days, secs) ==
    [days |-> days + (secs \div 86400), secs |-> secs % 86400]

\* The day of the proleptic Gregorian calendar, counted from 1970-01-01.
DaysFromCivil(year, month, day) ==
    LET y == IF month <= 2 THEN year - 1 ELSE year
        era == y \div 400
        yoe == y - era * 400
        doy == (153 * (IF month > 2 THEN month - 3 ELSE month + 9) + 2) \div 5
               + day - 1
        doe == yoe * 365 + yoe \div 4 - yoe \div 100 + doy
    IN  era * 146097 + doe - 719468

\* The year, month and day of a day counted from 1970-01-01.
CivilFromDays(days) ==
    LET z == days + 719468
        era == z \div 146097
        doe == z - era * 146097
        yoe == (doe - doe \div 1460 + doe \div 36524 - doe \div 146096) \div 365
        doy == doe - (365 * yoe + yoe \div 4 - yoe \div 100)
        mp == (5 * doy + 2) \div 153
        month == IF mp < 10 THEN mp + 3 ELSE mp - 9
    IN  [year |-> yoe + era * 400 + (IF month <= 2 THEN 1 ELSE 0),
         month |-> month,
         day |-> doy - (153 * mp + 2) \div 5 + 1]

\* std::mktime in a zone `zone` seconds east of UTC: fields out of their
\* range (the 31st of February, second 60) are carried over.
mktime(tm, zone) ==
    TimeT(DaysFromCivil(tm.year, tm.month, 1) + tm.day - 1,
          tm.hour * 3600 + tm.minute * 60 + tm.second - zone)

\* std::localtime in that zone.
localtime(time, zone) ==
    LET local == TimeT(time.days, time.secs + zone)
        civil == CivilFromDays(local.days)
    IN  [year |-> civil.year, month |-> civil.month, day |-> civil.day,
         hour |-> local.secs \div 3600,
         minute |-> (local.secs % 3600) \div 60,
         second |-> local.secs % 60]

\* a | b stored in a byte
RECURSIVE BitsOr(_, _, _)
BitsOr(a, b, n) ==
    IF n = 0 THEN 0
    ELSE (IF a % 2 = 1 \/ b % 2 = 1 THEN 1 ELSE 0)
         + 2 * BitsOr(a \div 2, b \div 2, n - 1)

ByteOr(a, b) == BitsOr(a, b, 8)

\* 00YYYYYY YYYYYYMM MMDDDDDH HHHHMMMM MMSSSSSS: the five assignments of
\* KdbTime::KdbTime, each truncated to a byte.
Packed(tm) ==
    <<(tm.year \div 64) % 256,
      ByteOr((tm.year % 64) * 4, tm.month \div 4),
      ByteOr(ByteOr((tm.month % 4) * 64, (tm.day * 2) % 256),
            tm.hour \div 16),
      ByteOr((tm.hour % 16) * 16, tm.minute \div 4),
      ByteOr((tm.minute % 4) * 64, tm.second % 256)>>

\* kNeverTimeConstant
kNeverTimeConstant == <<46, 223, 57, 126, 251>>

\* KdbTime::KdbTime(std::time_t)
KdbTime(time, zone) ==
    IF time = TimeT(0, -1) THEN kNeverTimeConstant
    ELSE Packed(localtime(time, zone))

\* KdbTime::ToTime: the time, or "abort" where an assert fails.
ToTime(packed, zone, debug) ==
    LET tm == [year |-> packed[1] * 64 + packed[2] \div 4,
               month |-> (packed[2] % 4) * 4 + packed[3] \div 64,
               day |-> (packed[3] \div 2) % 32,
               hour |-> (packed[3] % 2) * 16 + packed[4] \div 16,
               minute |-> (packed[4] % 16) * 4 + packed[5] \div 64,
               second |-> packed[5] % 64]
        in_range == /\ tm.second <= 60 /\ tm.minute <= 59 /\ tm.hour <= 23
                    /\ tm.day >= 1 /\ tm.day <= 31
                    /\ tm.month >= 1 /\ tm.month <= 12
                    /\ tm.year >= 1900
        res == mktime(tm, zone)
    IN  IF packed = kNeverTimeConstant
        THEN [error |-> "none", time |-> TimeT(0, 0)]
        ELSE IF debug /\ ~in_range
             THEN [error |-> "abort", time |-> TimeT(0, 0)]
        ELSE IF res = TimeT(0, -1)
             THEN [error |-> IF debug THEN "abort" ELSE "none",
                   time |-> TimeT(0, 0)]
        ELSE [error |-> "none", time |-> res]

\* The packed times of the files: the never constant, the ends of the
\* ranges of the fields, the year before the epoch, days past the end of
\* their month and a leap second.
PackedTimes ==
    {kNeverTimeConstant}
    \cup {Packed([year |-> year, month |-> month, day |-> day, hour |-> hour,
                  minute |-> minute, second |-> second]) :
            year \in {1969, 1970, 2014, 2999}, month \in {1, 2, 12},
            day \in {1, 28, 31}, hour \in {0, 23}, minute \in {0, 59},
            second \in {0, 59, 60}}

\* The offsets of the local time zone from UTC, in seconds.
Zones == {0, 3600, 0 - 18000}

\* ReadGroup, ReadEntry: set_creation_time(consume<KdbTime>(field).ToTime())
ReadTime ==
    /\ kdb_time.pc = "packed"
    /\ LET read == ToTime(kdb_time.packed, kdb_time.zone, kdb_time.debug)
       IN  kdb_time' = [kdb_time EXCEPT
                          !.pc = IF read.error = "none" THEN "read" ELSE "abort",
                          !.time = read.time]
    /\ UNCHANGED <<keyVars, cbcVars, hashedVars, codecVars, refsVars,
                   operands, base64, obfuscation, read_entry>>

\* WriteGroup, WriteEntry: conserve<KdbTime>(dst, KdbTime(creation_time()))
WriteTime ==
    /\ kdb_time.pc = "read"
    /\ kdb_time' = [kdb_time EXCEPT
                       !.pc = "written",
                       !.written = KdbTime(kdb_time.time, kdb_time.zone)]
    /\ UNCHANGED <<keyVars, cbcVars, hashedVars, codecVars, refsVars,
                   operands, base64, obfuscation, read_entry>>

\* ReadGroup, ReadEntry on the file Export wrote.
ReadTimeAgain ==
    /\ kdb_time.pc = "written"
    /\ LET read == ToTime(kdb_time.written, kdb_time.zone, kdb_time.debug)
       IN  kdb_time' = [kdb_time EXCEPT
                          !.pc = IF read.error = "none" THEN "read again"
                                 ELSE "abort again",
                          !.time2 = read.time]
    /\ UNCHANGED <<keyVars, cbcVars, hashedVars, codecVars, refsVars,
                   operands, base64, obfuscation, read_entry>>

InitTime ==
    /\ KeyIdle /\ CbcIdle /\ HashedIdle /\ CodecIdle /\ RefsIdle
    /\ operands = NoOperands /\ base64 = NoConversion
    /\ obfuscation = NoObfuscation /\ read_entry = NoEntry
    /\ \E packed \in PackedTimes, zone \in Zones, debug \in BOOLEAN :
          kdb_time = [pc |-> "packed", packed |-> packed, zone |-> zone,
                      debug |-> debug, time |-> TimeT(0, 0),
                      written |-> <<>>, time2 |-> TimeT(0, 0)]

NextTime == ReadTime \/ WriteTime \/ ReadTimeAgain

SpecTime == InitTime /\ [][NextTime]_vars

----------------------------------------------------------------------------
(* Claims about KDB packed times.                                          *)

\* C24: KDB Export is the inverse of KDB Import on packed times: a time
\* Import read from the never constant 2E DF 39 7E FB is written by Export
\* as those five bytes, and every other time is written as five bytes that
\* Import reads back as the same time.
C24_PackedTimesRoundTrip ==
    /\ (kdb_time.pc \in {"written", "read again"}
        /\ kdb_time.packed = kNeverTimeConstant)
       => kdb_time.written = kNeverTimeConstant
    /\ (kdb_time.pc \in {"read again", "abort again"}
        /\ kdb_time.packed # kNeverTimeConstant)
       => kdb_time.pc = "read again" /\ kdb_time.time2 = kdb_time.time

\* Every time but the one of the never constant is written as five bytes
\* that Import reads back as the same time.
OtherTimesReadBack ==
    (kdb_time.pc \in {"read again", "abort again"}
     /\ kdb_time.packed # kNeverTimeConstant)
    => kdb_time.pc = "read again" /\ kdb_time.time2 = kdb_time.time

\* The never constant is read as the epoch and written as the local time
\* of the epoch, 1970-01-01 00:00:00 in UTC.
NeverWrittenAsEpoch ==
    (kdb_time.pc \in {"written", "read again"}
     /\ kdb_time.packed = kNeverTimeConstant)
    => /\ kdb_time.time = TimeT(0, 0)
       /\ kdb_time.written = Packed(localtime(TimeT(0, 0), kdb_time.zone))
       /\ kdb_time.written # kNeverTimeConstant

\* The fields KdbTime packs come back out of ToTime: a packed time of
\* fields inside their ranges is written as it was read.
InRangeBytesKept ==
    (kdb_time.pc \in {"written", "read again"}
     /\ kdb_time.packed # kNeverTimeConstant
     /\ kdb_time.packed = Packed(localtime(kdb_time.time, kdb_time.zone)))
    => kdb_time.written = kdb_time.packed

----------------------------------------------------------------------------
(* The attachments of an entry read by an Import (KdbFile::ReadEntry,      *)
(* KdbxFile::ParseEntry) and printed by Entry::ToJson.                     *)

\* The kAttachmentName and kAttachmentData fields of a KDB entry record.
KdbAttachmentName(name) == [type |-> "kAttachmentName", name |-> name]
KdbAttachmentData(data) == [type |-> "kAttachmentData", data |-> data]

\* The loop of ReadEntry over the fields of a record, from the j-th on, up
\* to kEnd: what it adds to the entry.  `attachment` is the shared_ptr of
\* the loop, <<>> while it is null; a new Entry::Attachment has an empty
\* name (0) and no Binary.
RECURSIVE ReadEntryFields(_, _, _)
ReadEntryFields(fields, j, attachment) ==
    LET made == IF attachment = <<>> THEN <<NewAttachment(0, NullBinary)>>
                ELSE attachment
    IN  IF j > Len(fields) THEN attachment
        ELSE IF fields[j].type = "kAttachmentName"
             THEN IF fields[j].name = 0
                  THEN ReadEntryFields(fields, j + 1, attachment)
                  ELSE ReadEntryFields(fields, j + 1,
                                       <<[made[1] EXCEPT !.name = fields[j].name]>>)
        ELSE IF Len(fields[j].data) > 0
             THEN ReadEntryFields(
                      fields, j + 1,
                      <<[made[1] EXCEPT
                            !.binary = NewBinary(0, Protect(fields[j].data, FALSE))]>>)
        ELSE ReadEntryFields(fields, j + 1, attachment)

\* The entry records of the KDB files: with and without either field, an
\* empty name as KeePass 1.x writes it for no attachment, data of no byte.
KdbEntryRecords ==
    {<<>>}
    \cup {<<KdbAttachmentName(name)>> : name \in 0..2}
    \cup {<<KdbAttachmentData(data)>> : data \in {<<>>, <<7>>, <<7, 8>>}}
    \cup {<<KdbAttachmentName(name), KdbAttachmentData(data)>> :
            name \in 0..2, data \in {<<>>, <<7>>, <<7, 8>>}}

\* The <Binary> elements of the KDBX files: without a Value child, with a
\* Value that refers to the Binary "0" of Meta, with a Value that holds
\* the data.
XmlBinaries ==
    UNION {{[XmlBinary(key, NoRef, <<>>) EXCEPT !.has_value = FALSE],
            XmlBinary(key, 0, <<>>),
            XmlBinary(key, NoRef, base64_encode(<<7>>))} : key \in 1..2}

\* binary_pool_ after ParseMeta read one Binary with ID "0".
OneBinaryPool == <<[key |-> 0, binary |-> NewBinary(1, Protect(<<9>>, FALSE))]>>

\* KdbFile::ReadEntry on a record of the file.
ReadEntry ==
    /\ read_entry.pc = "file" /\ read_entry.kind = "kdb"
    /\ read_entry' =
           [read_entry EXCEPT
               !.pc = "read",
               !.attachments = ReadEntryFields(read_entry.source, 1, <<>>)]
    /\ UNCHANGED <<keyVars, cbcVars, hashedVars, codecVars, refsVars,
                   operands, base64, obfuscation, kdb_time>>

\* KdbxFile::ParseEntry on an <Entry> element of the file.
ReadXmlEntry ==
    /\ read_entry.pc = "file" /\ read_entry.kind = "kdbx"
    /\ read_entry' =
           [read_entry EXCEPT
               !.pc = "read",
               !.attachments =
                   ParseEntry([XmlEntry(1, 1, 0) EXCEPT
                                  !.binaries = read_entry.source],
                              <<>>, OneBinaryPool, 1,
                              NewObfuscator).entry.attachments]
    /\ UNCHANGED <<keyVars, cbcVars, hashedVars, codecVars, refsVars,
                   operands, base64, obfuscation, kdb_time>>

\* Entry::ToJson of the entry read: Entry::Attachment::ToJson calls
\* binary_->Empty() on every attachment, which is undefined for a null
\* binary_.
PrintEntry(ub) ==
    /\ read_entry.pc = "read"
    /\ LET null == \E k \in 1..Len(read_entry.attachments) :
                       read_entry.attachments[k].binary = NullBinary
       IN  read_entry' =
               [read_entry EXCEPT
                   !.pc = IF ~null THEN "printed" ELSE ub,
                   !.json = IF null THEN <<>>
                            ELSE [k \in 1..Len(read_entry.attachments) |->
                                     AttachmentToJson(read_entry.attachments[k])]]
    /\ UNCHANGED <<keyVars, cbcVars, hashedVars, codecVars, refsVars,
                   operands, base64, obfuscation, kdb_time>>

InitEntry ==
    /\ KeyIdle /\ CbcIdle /\ HashedIdle /\ CodecIdle /\ RefsIdle
    /\ operands = NoOperands /\ base64 = NoConversion
    /\ obfuscation = NoObfuscation /\ kdb_time = NoTime
    /\ \/ \E record \in KdbEntryRecords :
             read_entry = [pc |-> "file", kind |-> "kdb", source |-> record,
                           attachments |-> <<>>, json |-> <<>>]
       \/ \E nodes \in SeqsUpTo(XmlBinaries, 2) :
             read_entry = [pc |-> "file", kind |-> "kdbx", source |-> nodes,
                           attachments |-> <<>>, json |-> <<>>]

NextEntry ==
    \/ ReadEntry
    \/ ReadXmlEntry
    \/ \E ub \in UbOutcomes : PrintEntry(ub)

SpecEntry == InitEntry /\ [][NextEntry]_vars

----------------------------------------------------------------------------
(* Claims about the attachments of an imported entry.                      *)

\* C27: every Entry::Attachment of an entry an Import returned holds a
\* Binary, so that Entry::Attachment::ToJson and the other users can
\* dereference it: a KDB entry with an attachment name and attachment data
\* of no byte, and a KDBX <Binary> element without a Value child, too.
C27_AttachmentsHoldABinary ==
    /\ read_entry.pc \in {"read", "printed", "crash", "wild"}
       => \A k \in 1..Len(read_entry.attachments) :
             read_entry.attachments[k].binary # NullBinary
    /\ read_entry.pc \notin {"crash", "wild"}

\* An attachment read from KDB data of one byte or more, or from a <Binary>
\* element with a Value child, holds a Binary and is printed.
AttachmentsWithDataHoldABinary ==
    (/\ read_entry.pc \in {"read", "printed", "crash", "wild"}
     /\ IF read_entry.kind = "kdb"
        THEN \E j \in 1..Len(read_entry.source) :
                /\ read_entry.source[j].type = "kAttachmentData"
                /\ Len(read_entry.source[j].data) > 0
        ELSE \A j \in 1..Len(read_entry.source) :
                read_entry.source[j].has_value)
    => /\ \A k \in 1..Len(read_entry.attachments) :
             read_entry.attachments[k].binary # NullBinary
       /\ read_entry.pc \in {"read", "printed"}

\* A KDB record with an attachment name and no byte of data, and a <Binary>
\* element without a Value child, give an attachment without a Binary.
AttachmentsWithoutDataAreNull ==
    read_entry.pc = "read" =>
        IF read_entry.kind = "kdb"
        THEN (/\ \E j \in 1..Len(read_entry.source) :
                    /\ read_entry.source[j].type = "kAttachmentName"
                    /\ read_entry.source[j].name # 0
              /\ \A j \in 1..Len(read_entry.source) :
                    read_entry.source[j].type = "kAttachmentData"
                    => read_entry.source[j].data = <<>>)
             => /\ Len(read_entry.attachments) = 1
                /\ read_entry.attachments[1].binary = NullBinary
        ELSE \A j \in 1..Len(read_entry.source) :
                ~read_entry.source[j].has_value
                => read_entry.attachments[j].binary = NullBinary

----------------------------------------------------------------------------
(* Claims about the hashed-block stream over several flushes.              *)

\* C21: whatever bytes are written and whenever the writer is flushed, the
\* k-th block it emits, data block or terminator, carries the index k - 1;
\* the reader accepts a block only if its index is the number of blocks it
\* has read before, and raises IoError on any other index.
C21_BlockIndicesCount ==
    LET stream == hashed_ostreambuf.dst_
        r == hashed_istreambuf
    IN  /\ hashed_log.altered = 0 =>
              /\ hashed_ostreambuf.block_index_ = Len(stream)
              /\ \A k \in 1..Len(stream) : stream[k].block_index = k - 1
        /\ \A k \in 1..(r.pos - 1) :
              \/ stream[k].block_index = k - 1
              \/ k = r.pos - 1 /\ r.state = "Io"
        /\ r.state # "Io" => r.block_index_ = r.pos - 1

\* C21 witness: a byte, a flush, a byte and a flush gave four blocks with
\* the indices 0 to 3, and the reader has read the first two of them.
C21_Witness ==
    /\ hashed_log.altered = 0
    /\ hashed_log.syncs = 2
    /\ Len(hashed_ostreambuf.dst_) = 4
    /\ hashed_ostreambuf.dst_[4].block_index = 3
    /\ hashed_ostreambuf.dst_[3].block_size > 0
    /\ hashed_istreambuf.pos = 3
    /\ hashed_istreambuf.state = "eof"

\* The reader raises IoError on a block whose index was altered.
AlteredIndexRaisesIo ==
    LET k == hashed_log.altered
    IN  (/\ k # 0
         /\ hashed_ostreambuf.dst_[k].block_index # k - 1
         /\ hashed_istreambuf.pos > k)
        => hashed_istreambuf.state = "Io" /\ hashed_istreambuf.pos = k + 1

\* C25: when writes and flushes were interleaved and the last operation
\* was a flush, the reader has returned every byte written, in order,
\* when it signals the end of the stream.
C25_AllBytesReadBack ==
    (/\ hashed_log.flushed /\ hashed_log.altered = 0
     /\ hashed_istreambuf.state = "eof")
    => hashed_istreambuf.delivered = hashed_log.written

\* What the reader does return: the bytes written before the first flush.
\* The first flush ends in a terminator, where the reader signals the end
\* of the stream.
ReadUpToFirstFlush ==
    (/\ hashed_log.flushed /\ hashed_log.altered = 0
     /\ hashed_istreambuf.state = "eof")
    => hashed_istreambuf.delivered
       = Payload(DataBlocks(hashed_ostreambuf.dst_))

\* The stream itself holds every byte written, in order.
StreamHoldsAllBytes ==
    (hashed_log.flushed /\ hashed_log.altered = 0)
    => Payload(hashed_ostreambuf.dst_) = hashed_log.written

----------------------------------------------------------------------------
(* Claims about the tree an Import returns.                                *)

\* The entries of the entry lists of the root and the groups below it, each
\* with the group whose list holds it.
EntriesUnder(root) ==
    Flatten([k \in 1..Len(GroupsUnder(root)) |->
                [j \in 1..Len(GroupsUnder(root)[k].entries) |->
                    [addr |-> GroupsUnder(root)[k].entries[j].addr,
                     group |-> GroupsUnder(root)[k].addr]]])

\* The count of <Group> elements in a list of them and below.
RECURSIVE XmlGroupsIn(_, _)
XmlGroupsIn(groups, j) ==
    IF j > Len(groups) THEN 0
    ELSE 1 + XmlGroupsIn(groups[j].groups, 1) + XmlGroupsIn(groups, j + 1)

\* The count of <Entry> elements of the groups of a list and below, those
\* under History left out.
RECURSIVE XmlEntriesIn(_, _)
XmlEntriesIn(groups, j) ==
    IF j > Len(groups) THEN 0
    ELSE Len(groups[j].entries) + XmlEntriesIn(groups[j].groups, 1)
         + XmlEntriesIn(groups, j + 1)

\* No object occurs twice.
Distinct(objects) ==
    \A i, j \in 1..Len(objects) : i # j => objects[i].addr # objects[j].addr

\* Every group record read is in a child list of the tree under db.root
\* exactly once, and every entry record in the entry list of the group of
\* its group_id exactly once.
KdbRecordsOnce ==
    LET plain == file["src"].content.plain
        n == Len(plain.groups)
        groups == GroupsUnder(db.root)
        entries == EntriesUnder(db.root)
    IN  /\ \A k \in 1..n :
              Cardinality({i \in 2..Len(groups) : groups[i].addr = k}) = 1
        /\ \A j \in 1..Len(plain.entries) :
              /\ Cardinality({i \in 1..Len(entries) : entries[i].addr = n + j}) = 1
              /\ \E i \in 1..Len(entries) :
                    /\ entries[i].addr = n + j
                    /\ entries[i].group
                       = GroupById(plain.groups, plain.entries[j].group_id, 1)

\* The first Import of a scenario has ended, on a KDBX file, and returned
\* a Database.
KdbxTreeBuilt ==
    /\ call.op = "KdbxImport" /\ call.path = "src" /\ call.pc = "idle"
    /\ call.error = "none"

\* C23: in the Database an Import returns, every group decoded from the
\* file is in the child list of exactly one group exactly once and every
\* entry in the entry list of exactly one group exactly once (for KDB the
\* group that carries the group_id of the entry; an entry of an unknown id
\* raises Format), so what hangs under the root is a tree.
C23_ImportReturnsATree ==
    /\ (KdbTreeBuilt /\ call.error = "none") => KdbRecordsOnce
    /\ (/\ call.op = "KdbImport" /\ call.path = "src" /\ call.pc = "idle"
        /\ call.decoded
        /\ KdbRead(file["src"].content.plain, file["src"].num_groups,
                   file["src"].num_entries) = "none"
        /\ HasOrphan(file["src"].content.plain))
       => call.error = "Format"
    /\ KdbxTreeBuilt =>
          LET root == file["src"].content.plain.xml.root
          IN  /\ Len(GroupsUnder(db.root)) = 1 + XmlGroupsIn(root.groups, 1)
              /\ Distinct(GroupsUnder(db.root))
              /\ Len(EntriesUnder(db.root))
                 = Len(root.entries) + XmlEntriesIn(root.groups, 1)
              /\ Distinct(EntriesUnder(db.root))

\* The levels of the group records of the file at "src".
LevelsRead ==
    [k \in 1..Len(file["src"].content.plain.groups) |->
        file["src"].content.plain.groups[k].level]

\* Where no group record carries the largest level, the Database
\* KdbFile::Import returns holds every record exactly once.
KdbTreeBelowLargestLevel ==
    (/\ KdbTreeBuilt /\ call.error = "none"
     /\ \A k \in 1..Len(LevelsRead) : LevelsRead[k] < LevelMod - 1)
    => KdbRecordsOnce

\* C29: for every level a group record can carry, 0 to 65535,
\* KdbFile::Import attaches the group or raises Format: level + 1 does not
\* wrap in 16 bits, and the reads and writes of last_group_by_level stay
\* inside it, so that every group attached hangs under the root or under
\* a group read before it.
C29_EveryLevelAttachedOrFormat ==
    KdbTreeBuilt =>
        /\ call.error \in {"none", "Format"}
        /\ \A ub \in UbOutcomes :
              LET tree == KdbTree(LevelsRead, 1, 0, <<0>>, <<>>, ub)
              IN  /\ tree.error \in {"none", "Format"}
                  /\ \A k \in 1..Len(tree.parent) :
                        /\ tree.parent[k] \in 0..(k - 1)
                        /\ (LevelsRead[k] + 1) % LevelMod = LevelsRead[k] + 1

\* Below the largest level the loop stays inside last_group_by_level and
\* Import attaches the group or raises Format.
LevelsBelowLargestInBounds ==
    (/\ KdbTreeBuilt
     /\ \A k \in 1..Len(LevelsRead) : LevelsRead[k] < LevelMod - 1)
    => /\ call.error \in {"none", "Format"}
       /\ \A ub \in UbOutcomes :
             \A k \in 1..Len(KdbTree(LevelsRead, 1, 0, <<0>>, <<>>, ub).parent) :
                 KdbTree(LevelsRead, 1, 0, <<0>>, <<>>, ub).parent[k] \in 0..(k - 1)

----------------------------------------------------------------------------
(* Claims about a call of Key::SetKeyFile that fails.                      *)

\* C28: when Key::SetKeyFile fails with FileNotFound or Format, the
\* key-file sub-key of the Key is what it was before the call, so that
\* Key::Transform starts from the same resolved key as before.
C28_FailedSetKeyFileKeepsKey ==
    [][\A key_file \in KeyFiles :
          (SetKeyFile(key_file) /\ key_error' \in {"FileNotFound", "Format"})
          => /\ keyfile_key_' = keyfile_key_
             /\ \A resolution \in Resolutions :
                   Resolve(password_key_', keyfile_key_', resolution)
                   = Resolve(password_key_, keyfile_key_, resolution)]_vars

\* A call that fails before the loop over the hex digits, or at its first
\* pair, leaves the key-file sub-key as it was: a file that cannot be
\* opened, an XML key file whose Data has not the size of the key, a raw
\* file of another size.
FailureBeforeFirstByteKeepsKey ==
    [][\A key_file \in KeyFiles :
          (/\ SetKeyFile(key_file)
           /\ key_error' \in {"FileNotFound", "Format"}
           /\ \/ key_file.kind # "raw"
              \/ Len(key_file.data) # KeyLen
              \/ FirstNotHex(key_file.data, 1) = 1)
          => keyfile_key_' = keyfile_key_]_vars

\* A raw key file whose pair j is the first that is not hex leaves the
\* bytes before j of the file in the key-file sub-key.
FailureAtLaterByteWritesPrefix ==
    [][\A key_file \in KeyFiles :
          (/\ SetKeyFile(key_file)
           /\ key_file.kind = "raw" /\ Len(key_file.data) = KeyLen
           /\ FirstNotHex(key_file.data, 1) \in 2..KeyLen)
          => /\ key_error' = "Format"
             /\ \A j \in 1..KeyLen :
                   keyfile_key_'[j] = IF j < FirstNotHex(key_file.data, 1)
                                      THEN key_file.data[j]
                                      ELSE keyfile_key_[j]]_vars

----------------------------------------------------------------------------
(* Claims about attachments written inline by KDBX Export.                 *)

\* The attachments of the first entry of the root of a Database.
FirstAttachments(database) == database.root.entries[1].attachments

\* The Binary of an attachment is none of Metadata.binaries.
Inline(database, attachment) ==
    \A j \in 1..Len(database.meta.binaries) :
        database.meta.binaries[j].addr # attachment.binary.addr

\* C30: an attachment whose Binary is not listed in Metadata.binaries is
\* written inline by KDBX Export and read back by KDBX Import of that
\* file with the same name and the same data bytes.
C30_InlineAttachmentsRestored ==
    BuiltRoundTrip =>
        /\ Len(FirstAttachments(db2)) = Len(FirstAttachments(db))
        /\ \A j \in 1..Len(FirstAttachments(db)) :
              Inline(db, FirstAttachments(db)[j]) =>
                  /\ FirstAttachments(db2)[j].name = FirstAttachments(db)[j].name
                  /\ FirstAttachments(db2)[j].binary.data.value
                     = FirstAttachments(db)[j].binary.data.value

\* Export writes the data of an inline attachment, in base64, as the text
\* of the Value child of the <Binary> element.
InlineDataIsInTheFile ==
    BuiltRoundTrip =>
        LET nodes == file["dst"].content.plain.xml.root.entries[1].binaries
        IN  /\ Len(nodes) = Len(FirstAttachments(db))
            /\ \A j \in 1..Len(nodes) :
                  Inline(db, FirstAttachments(db)[j]) =>
                      /\ nodes[j].has_value /\ nodes[j].ref = NoRef
                      /\ base64_decode(nodes[j].value).value
                         = FirstAttachments(db)[j].binary.data.value

\* Import gives an inline attachment its name and a Binary of no byte.
InlineAttachmentsReadEmpty ==
    BuiltRoundTrip =>
        \A j \in 1..Len(FirstAttachments(db)) :
            Inline(db, FirstAttachments(db)[j]) =>
                /\ FirstAttachments(db2)[j].name = FirstAttachments(db)[j].name
                /\ FirstAttachments(db2)[j].binary.data = Protect(<<>>, FALSE)

============================================================================
